---- MODULE Spec2Model ----
(***************************************************************************)
(* sftp-push-sync: the differential synchronisation engine.                *)
(*   compare.mjs   analyseDifferences, computeRemoteDeletes, walkLocal,    *)
(*                 walkRemote, createHashCache                             *)
(*   part_000      SftpPushSyncApp (runTasks, ensureAllRemoteDirsExist,    *)
(*                 cleanupEmptyDirs, run)                                  *)
(*   sidecar.mjs   performBypassOnly                                       *)
(***************************************************************************)
EXTENDS Integers, Sequences, FiniteSets, TLC

\* ------------------------------------------------------------------ bounds
\* File contents are the numbers 1..MaxContent; 0 stands for "no such file".
MaxContent == 4
\* runTasks on its own: at most MaxItems items, workerCount in -1..MaxWorkers.
MaxItems == 3
MaxWorkers == 3

\* flushInterval passed to createHashCache by run().
FlushInterval == 50

\* ---------------------------------------------------------------- universe
\* Relative paths are sequences of segments. One file in the root, one in a
\* directory, a directory nested in that directory, and a second directory in
\* the root that holds nothing.
Files == { <<"a">>, <<"d", "b">> }
Dirs == { <<"d">>, <<"d", "e">>, <<"g">> }
\* The directories in the root that a file of the trees lives in.
TopDirs == { d \in Dirs : Len(d) = 1 /\ \E f \in Files : Len(f) = 2 /\ f[1] = d[1] }
\* The order in which readdir / sftp.list report entries.
EntryOrder == << <<"a">>, <<"d">>, <<"d", "b">>, <<"d", "e">>, <<"g">> >>
RemoteRoot == <<"root">>

Contents == 1..MaxContent
Absent == 0

\* Byte length of a content: 1 and 2 are different byte strings of one length,
\* the larger contents different byte strings of another.
Size(c) == IF c <= 2 THEN 1 ELSE 2

\* Buffer.toString("utf8"): 3 and 4 differ only in an invalid byte sequence,
\* which decodes to U+FFFD in both.
Decode(c) == IF c = 4 THEN 3 ELSE c

\* createHash("sha256") ... digest("hex"): distinct contents, distinct digests.
Sha256(c) == 100 + c

\* path.posix.join(remoteRoot, rel)
PosixJoin(root, rel) == root \o rel

Range(s) == { s[i] : i \in DOMAIN s }

\* ------------------------------------------------------------------- state
VARIABLES
  lfs,       \* local tree: file -> content (Absent when the file is missing)
  lmt,       \* local tree: file -> mtimeMs
  isText,    \* classifier: file -> BOOLEAN (extension table)
  lroot,     \* fs.existsSync(localRoot)
  rfs,       \* remote tree: file -> content (Absent when missing)
  rmt,       \* remote tree: file -> modifyTime
  rdirs,     \* remote tree: the directories that exist below the root
  local,     \* Map of the local scan, as the sequence of its records
  remote,    \* Map of the remote scan, as the sequence of its records
  included,  \* isIncluded: the set of relative paths it accepts
  cli,       \* bin/sftp-push-sync.mjs: the arguments after the target, the
             \* position of the flag loop, the flags and the resulting logLevel
  hc,        \* createHashCache closure (cache.local, cache.remote, dirty,
             \* dirtyCount, flushInterval) and the document at cachePath (disk)
  reads,     \* content fetches issued so far: <<side, rel>>
  ret,       \* per side, the last getLocalHash / getRemoteHash call that returned
  pc,        \* position of the caller
  checked,   \* analyseDifferences: loop counter
  toAdd, toUpdate, toDelete,
  rt,        \* runTasks: its arguments, index, done, the workers, and per item
             \* the number of handler invocations and how the handler settled
  opt,       \* run(): this.options and the configuration read from them
  ops,       \* mkdir, put, delete and rmdir calls issued on the session in this run
  sess,      \* the session: connected, number of end() calls
  scan,      \* the two walks of phase 1 + 2
  cl,        \* cleanupEmptyDirs: call stack and the call awaited
  run,       \* run(): number of the run, exit code, what failed
  stats      \* this.dirStats

vars == << lfs, lmt, isText, lroot, rfs, rmt, rdirs, local, remote, included, cli, hc, reads, ret,
           pc, checked, toAdd, toUpdate, toDelete, rt,
           opt, ops, sess, scan, cl, run, stats >>

runVars == << opt, ops, sess, scan, cl, stats >>

envVars == << lfs, lmt, isText, lroot, included, cli >>
remVars == << rfs, rmt, rdirs >>
snapVars == << local, remote >>

\* ----------------------------------------------------------- Map helpers
Keys(m) == { m[i].rel : i \in DOMAIN m }
Has(m, rel) == rel \in Keys(m)
Get(m, rel) == m[CHOOSE i \in DOMAIN m : m[i].rel = rel]

\* ------------------------------------------------------------------ scans
LocalRecord(f) ==
  [ rel |-> f, localPath |-> f, size |-> Size(lfs[f]), mtimeMs |-> lmt[f],
    isText |-> isText[f] ]

RemoteRecord(f) ==
  [ rel |-> f, remotePath |-> PosixJoin(RemoteRoot, f), size |-> Size(rfs[f]),
    modifyTime |-> rmt[f] ]

IsChild(p, dir) == Len(p) = Len(dir) + 1 /\ SubSeq(p, 1, Len(dir)) = dir

\* fsp.readdir(current): the entries of a local directory. A local directory
\* exists whether or not it holds a file.
LocalListing(dir) ==
  SelectSeq(EntryOrder,
            LAMBDA p : IsChild(p, dir) /\ (p \in Dirs \/ lfs[p] # Absent))

\* sftp.list(remoteDir)
RemoteListing(dir) ==
  SelectSeq(EntryOrder,
            LAMBDA p : IsChild(p, dir) /\ (IF p \in Dirs THEN p \in rdirs
                                                       ELSE rfs[p] # Absent))

\* walkLocal.recurse: directories are always entered, filterFn is asked for
\* files only.
RECURSIVE WalkLocalItems(_, _, _)
WalkLocalItems(items, filter, acc) ==
  IF items = << >> THEN acc
  ELSE LET p == Head(items) IN
       IF p \in Dirs
         THEN WalkLocalItems(Tail(items), filter,
                             WalkLocalItems(LocalListing(p), filter, acc))
       ELSE IF p \notin filter
         THEN WalkLocalItems(Tail(items), filter, acc)
       ELSE WalkLocalItems(Tail(items), filter, Append(acc, LocalRecord(p)))

walkLocal(filter) == WalkLocalItems(LocalListing(<< >>), filter, << >>)

\* walkRemote.recurse: filterFn is asked for every entry, directories
\* included, before its type is looked at.
RECURSIVE WalkRemoteItems(_, _, _)
WalkRemoteItems(items, filter, acc) ==
  IF items = << >> THEN acc
  ELSE LET p == Head(items) IN
       IF p \notin filter
         THEN WalkRemoteItems(Tail(items), filter, acc)
       ELSE IF p \in Dirs
         THEN WalkRemoteItems(Tail(items), filter,
                              WalkRemoteItems(RemoteListing(p), filter, acc))
       ELSE WalkRemoteItems(Tail(items), filter, Append(acc, RemoteRecord(p)))

walkRemote(filter) == WalkRemoteItems(RemoteListing(<< >>), filter, << >>)

\* ------------------------------------------------------------- hash cache
NoEntry == [ present |-> FALSE, size |-> 0, ts |-> 0, hash |-> 0 ]
Entry(size, ts, hash) == [ present |-> TRUE, size |-> size, ts |-> ts, hash |-> hash ]

\* The document save() writes: JSON.stringify(cache).
Doc(c) == [ local |-> c.local, remote |-> c.remote ]
EmptyDoc == [ local |-> [ f \in Files |-> NoEntry ], remote |-> [ f \in Files |-> NoEntry ] ]

\* createHashCache, before the load: empty tables, clean.
NewCache(flushInterval, document) ==
  [ local |-> [ f \in Files |-> NoEntry ], remote |-> [ f \in Files |-> NoEntry ],
    dirty |-> FALSE, dirtyCount |-> 0, flushInterval |-> flushInterval,
    load |-> "pending", disk |-> document, writes |-> << >> ]

\* save(force)
Save(c, force) ==
  IF ~c.dirty /\ ~force THEN c
  ELSE [ c EXCEPT !.disk = Doc(c), !.dirty = FALSE, !.dirtyCount = 0 ]

MarkDirty_forgotten(c) == c

\* markDirty()
MarkDirty(c) ==
  LET c1 == [ c EXCEPT !.dirty = TRUE, !.dirtyCount = @ + 1 ]
  IN  IF c1.dirtyCount >= c1.flushInterval THEN Save(c1, FALSE) ELSE c1

CacheHit_otherTimestamp(e, size, ts) ==
  e.present /\ e.size = size /\ e.ts # ts /\ e.hash # 0

\* The test both getLocalHash and getRemoteHash apply to the cached entry.
CacheHit(e, size, ts) ==
  e.present /\ e.size = size /\ e.ts = ts /\ e.hash # 0

\* getLocalHash(rel, meta): the closure after the call, the hash returned,
\* and whether the content was read.
GetLocalHash(c, rel, meta) ==
  IF CacheHit(c.local[rel], meta.size, meta.mtimeMs)
    THEN [ c |-> c, hash |-> c.local[rel].hash, read |-> FALSE ]
    ELSE LET h == Sha256(lfs[meta.localPath])
         IN  [ c |-> MarkDirty([ c EXCEPT !.local[rel] = Entry(meta.size, meta.mtimeMs, h) ]),
               hash |-> h, read |-> TRUE ]

\* getRemoteHash(rel, meta, sftp)
GetRemoteHash(c, rel, meta) ==
  IF CacheHit(c.remote[rel], meta.size, meta.modifyTime)
    THEN [ c |-> c, hash |-> c.remote[rel].hash, read |-> FALSE ]
    ELSE LET h == Sha256(rfs[rel])
         IN  [ c |-> MarkDirty([ c EXCEPT !.remote[rel] = Entry(meta.size, meta.modifyTime, h) ]),
               hash |-> h, read |-> TRUE ]

\* What the caller of a hash lookup holds when the call has returned; tick
\* flips at every return.
NoCall == [ tick |-> 0, rel |-> << >>, hash |-> 0, read |-> FALSE ]
NoSave == [ tick |-> 0, wrote |-> FALSE, caller |-> "none" ]
NoCalls == [ local |-> NoCall, remote |-> NoCall, save |-> NoSave ]
Returned(last, rel, res) ==
  [ tick |-> 1 - last.tick, rel |-> rel, hash |-> res.hash, read |-> res.read ]

\* ---------------------------------------------------------------- runTasks
Max(a, b) == IF a >= b THEN a ELSE b
Min(a, b) == IF a <= b THEN a ELSE b

ActualWorkers_max(workerCount, total) == Max(workerCount, total)

\* const actualWorkers = Math.max(1, Math.min(workerCount, total))
ActualWorkers(workerCount, total) == Max(1, Min(workerCount, total))

\* The first operation a handler awaits, by the label of the call.
FirstStep(label) ==
  CASE label \in { "Uploads (new)", "Uploads (update)", "Bypass Uploads" } -> "mkdir"
    [] label = "Deletes" -> "delete"
    [] label = "Bypass Downloads" -> "get"
    [] OTHER -> "await"

NoTasks ==
  [ state |-> "idle", label |-> "Tasks", items |-> << >>, workerCount |-> 0,
    total |-> 0, index |-> 0, done |-> 0, workers |-> << >>,
    invoked |-> << >>, outcome |-> << >> ]

Claim_noIncrement(t, w) ==
  IF t.index >= t.total
    THEN [ t EXCEPT !.workers[w].st = "exited" ]
    ELSE [ t EXCEPT !.invoked[t.index + 1] = @ + 1,
                    !.workers[w] = [ st |-> "handler", i |-> t.index + 1,
                                     step |-> FirstStep(t.label) ] ]

\* worker, top of the loop: const i = index; if (i >= total) break;
\* index += 1; handler(items[i]) is called and runs to its first await.
Claim(t, w) ==
  IF t.index >= t.total
    THEN [ t EXCEPT !.workers[w].st = "exited" ]
    ELSE [ t EXCEPT !.index = @ + 1,
                    !.invoked[t.index + 1] = @ + 1,
                    !.workers[w] = [ st |-> "handler", i |-> t.index + 1,
                                     step |-> FirstStep(t.label) ] ]

Settle_rethrow(t, w, threw) ==
  LET i == t.workers[w].i
      t1 == [ t EXCEPT !.outcome[i] = IF threw THEN "thrown" ELSE "ok" ]
  IN  IF threw THEN [ t1 EXCEPT !.workers[w].st = "rejected" ]
      ELSE Claim([ t1 EXCEPT !.done = @ + 1 ], w)

\* worker, after `await handler(item)`: the catch swallows what the handler
\* threw, done += 1, and the loop goes round.
Settle(t, w, threw) ==
  LET i == t.workers[w].i
      t1 == [ t EXCEPT !.outcome[i] = IF threw THEN "thrown" ELSE "ok",
                       !.done = @ + 1 ]
  IN  Claim(t1, w)

\* for (let i = 0; i < actualWorkers; i += 1) workers.push(worker()): each
\* worker() runs to its first await before the next one is started.
RECURSIVE SpawnWorkers(_, _)
SpawnWorkers(t, w) ==
  IF w > Len(t.workers) THEN t ELSE SpawnWorkers(Claim(t, w), w + 1)

\* runTasks(items, workerCount, handler, label), up to `await Promise.all`.
StartTasks(items, workerCount, label) ==
  IF Len(items) = 0
    THEN [ NoTasks EXCEPT !.state = "resolved", !.label = label,
                          !.workerCount = workerCount ]
    ELSE SpawnWorkers(
           [ state |-> "running", label |-> label, items |-> items,
             workerCount |-> workerCount, total |-> Len(items), index |-> 0,
             done |-> 0,
             workers |-> [ w \in 1..ActualWorkers(workerCount, Len(items)) |->
                             [ st |-> "new", i |-> 0, step |-> "none" ] ],
             invoked |-> [ i \in 1..Len(items) |-> 0 ],
             outcome |-> [ i \in 1..Len(items) |-> "none" ] ], 1)

InFlight(t) == { w \in DOMAIN t.workers : t.workers[w].st = "handler" }

WorkersSettled_any(t) ==
  \E w \in DOMAIN t.workers : t.workers[w].st # "handler"

\* Promise.all(workers) has settled: every worker has returned, or one has
\* rejected.
WorkersSettled(t) ==
  \/ \A w \in DOMAIN t.workers : t.workers[w].st = "exited"
  \/ \E w \in DOMAIN t.workers : t.workers[w].st = "rejected"

\* await Promise.all(workers) returns or throws.
Awaited(t) ==
  [ t EXCEPT !.state = IF \E w \in DOMAIN t.workers : t.workers[w].st = "rejected"
                         THEN "rejected" ELSE "resolved" ]

\* ------------------------------------------------------------- run() state
\* this.options and the configuration as the constructor leaves them.
DefaultOptions ==
  [ dryRun |-> FALSE, skipSync |-> FALSE, runUploadList |-> FALSE,
    runDownloadList |-> FALSE, workers |-> 2, cleanupEmptyDirs |-> TRUE,
    cleanupEmptyRoots |-> FALSE, parallelScan |-> TRUE,
    uploadList |-> { }, downloadList |-> { } ]

\* new ScanProgressController(): no channel, no interval; tty is
\* process.stdout.isTTY.
NoProgress == [ channels |-> { }, interval |-> FALSE, tty |-> TRUE ]

NoScan ==
  [ l |-> "idle", r |-> "idle", lres |-> << >>, rres |-> << >>,
    rpend |-> << >>, rstack |-> << >>, progress |-> NoProgress ]

NoCleanup ==
  [ st |-> "idle", stack |-> << >>, call |-> "none", dir |-> << >>,
    listed |-> { }, warned |-> { } ]

ZeroStats ==
  [ ensuredDirs |-> 0, createdDirs |-> 0, cleanupVisited |-> 0, cleanupDeleted |-> 0 ]

FirstRun == [ no |-> 1, exitCode |-> 0, fatal |-> "none", itemFailed |-> FALSE,
              clean |-> FALSE, ensure |-> << >>, saved |-> "none" ]

\* The module-level variables of bin/sftp-push-sync.mjs before the flag loop,
\* with no arguments after the target.
NoCli ==
  [ rest |-> << >>, i |-> 1, DRY_RUN |-> FALSE, RUN_UPLOAD_LIST |-> FALSE,
    RUN_DOWNLOAD_LIST |-> FALSE, SKIP_SYNC |-> FALSE, cliLogLevel |-> "null",
    configPath |-> "undefined", configLogLevel |-> "normal", logLevel |-> "unset",
    st |-> "flags" ]

\* The state of run() before it is called.
RunNotStarted ==
  /\ cli = NoCli
  /\ opt = DefaultOptions
  /\ ops = { }
  /\ sess = [ connected |-> FALSE, ended |-> 0 ]
  /\ scan = NoScan
  /\ cl = NoCleanup
  /\ run = FirstRun
  /\ stats = ZeroStats

\* ------------------------------------------------------ analyseDifferences
\* One entry of toAdd / toUpdate / toDelete.
Item(rel, remotePath) == [ rel |-> rel, remotePath |-> remotePath ]

\* The record the loop is at.
CurLocal == local[checked + 1]

\* The iteration needs the content of both sides: the key is on both sides
\* with equal sizes.
NeedsContent ==
  /\ Has(remote, CurLocal.rel)
  /\ CurLocal.size = Get(remote, CurLocal.rel).size

NoRemoteEntry_sizeAsMissing(rel) ==
  \/ ~Has(remote, rel)
  \/ Get(remote, rel).size # Get(local, rel).size

\* const r = remote.get(rel); if (!r)
NoRemoteEntry(rel) == ~Has(remote, rel)

\* if (l.size !== r.size)
SizeDiffers_never(l, r) == FALSE
SizeDiffers(l, r) == l.size # r.size

\* if (l.isText) ... else: the records compared by fingerprint.
UsesHashes_always(l) == TRUE
UsesHashes(l) == ~l.isText

\* localStr !== remoteStr, both decoded from the bytes read.
TextDiffers_bytes(lc, rc) == lc # rc
TextDiffers(lc, rc) == Decode(lc) # Decode(rc)

\* localHash !== remoteHash
HashDiffers_inverted(lh, rh) == lh = rh
HashDiffers(lh, rh) == lh # rh

\* One iteration of the for loop, from `checked += 1` to the end of the body.
AnalyseStep ==
  /\ pc = "analyse"
  /\ checked < Len(local)
  /\ LET l == CurLocal
         rel == l.rel
         remotePath == PosixJoin(RemoteRoot, rel)
     IN  /\ checked' = checked + 1
         /\ IF NoRemoteEntry(rel)
              THEN /\ toAdd' = Append(toAdd, Item(rel, remotePath))
                   /\ UNCHANGED << toUpdate, hc, reads, ret >>
            ELSE LET r == Get(remote, rel) IN
              IF SizeDiffers(l, r)
                THEN /\ toUpdate' = Append(toUpdate, Item(rel, remotePath))
                     /\ UNCHANGED << toAdd, hc, reads, ret >>
              ELSE IF ~UsesHashes(l)
                THEN /\ reads' = reads \cup { << "local", rel >>, << "remote", rel >> }
                     /\ toUpdate' = IF TextDiffers(lfs[l.localPath], rfs[rel])
                                      THEN Append(toUpdate, Item(rel, remotePath))
                                      ELSE toUpdate
                     /\ UNCHANGED << toAdd, hc, ret >>
              ELSE LET lh == GetLocalHash(hc, rel, l)
                       rh == GetRemoteHash(lh.c, rel, r)
                   IN  /\ hc' = rh.c
                       /\ ret' = [ ret EXCEPT !.local = Returned(@, rel, lh),
                                               !.remote = Returned(@, rel, rh) ]
                       /\ reads' = reads \cup { << "local", rel >> : x \in { y \in {1} : lh.read } }
                                         \cup { << "remote", rel >> : x \in { y \in {1} : rh.read } }
                       /\ toUpdate' = IF HashDiffers(lh.hash, rh.hash)
                                        THEN Append(toUpdate, Item(rel, remotePath))
                                        ELSE toUpdate
                       /\ toAdd' = toAdd
  /\ pc' = pc
  /\ UNCHANGED << envVars, remVars, snapVars, toDelete, rt, runVars, run >>

AnalyseFailTarget_swallowed == "deletes"

\* Nothing between the rejected await in analyseDifferences and the catch of
\* run() handles the exception.
AnalyseFailTarget == "catch"

\* fsp.readFile, sftp.get or a hash stream rejects: the Promise.all rejects and
\* the exception leaves analyseDifferences. The fetch of the other side, which
\* runs concurrently, completes.
AnalyseFail ==
  /\ pc = "analyse"
  /\ checked < Len(local)
  /\ NeedsContent
  /\ LET l == CurLocal
         rel == l.rel
         r == Get(remote, rel)
         lh == GetLocalHash(hc, rel, l)
         rh == GetRemoteHash(hc, rel, r)
     IN  \E side \in { "local", "remote" } :
           /\ l.isText \/ (IF side = "local" THEN lh.read ELSE rh.read)
           /\ reads' = reads \cup { << "local", rel >> : x \in { y \in {1} : l.isText \/ lh.read } }
                             \cup { << "remote", rel >> : x \in { y \in {1} : l.isText \/ rh.read } }
           /\ hc' = IF l.isText THEN hc
                    ELSE IF side = "local" THEN rh.c ELSE lh.c
           /\ ret' = IF l.isText THEN ret
                     ELSE IF side = "local"
                       THEN [ ret EXCEPT !.remote = Returned(@, rel, rh) ]
                       ELSE [ ret EXCEPT !.local = Returned(@, rel, lh) ]
  /\ pc' = AnalyseFailTarget
  /\ run' = [ run EXCEPT !.fatal = "analyse" ]
  /\ checked' = checked + 1
  /\ UNCHANGED << envVars, remVars, snapVars, toAdd, toUpdate, toDelete, rt, runVars >>

\* The loop is over: return { toAdd, toUpdate }.
AnalyseReturn ==
  /\ pc = "analyse"
  /\ checked = Len(local)
  /\ pc' = "deletes"
  /\ UNCHANGED << envVars, remVars, snapVars, hc, reads, ret, checked,
                  toAdd, toUpdate, toDelete, rt, runVars, run >>

\* ---------------------------------------------------- computeRemoteDeletes
computeRemoteDeletes_hasLocal(l, r) ==
  LET localKeys == Keys(l)
      sel == SelectSeq(r, LAMBDA rec : rec.rel \in localKeys)
  IN  [ i \in DOMAIN sel |-> Item(sel[i].rel, sel[i].remotePath) ]

computeRemoteDeletes(l, r) ==
  LET localKeys == Keys(l)
      sel == SelectSeq(r, LAMBDA rec : rec.rel \notin localKeys)
  IN  [ i \in DOMAIN sel |-> Item(sel[i].rel, sel[i].remotePath) ]

\* run(), phase 4: toDelete = computeRemoteDeletes({ local, remote })
ComputeDeletes ==
  /\ pc = "deletes"
  /\ toDelete' = computeRemoteDeletes(local, remote)
  /\ pc' = "ensure"
  /\ UNCHANGED << envVars, remVars, snapVars, hc, reads, ret, checked,
                  toAdd, toUpdate, rt, runVars, run >>

\* ------------------------------------------- the diff on arbitrary snapshots
\* A cache table as an earlier run may have left it: no entries, entries that
\* match the current records, entries with the current size and timestamp but
\* the hash of other content, entries with an older timestamp, entries of
\* another size, entries without a hash.
CacheModes == { "empty", "good", "wrong", "stale", "resized", "nohash" }

OtherContent(c) == IF c = 1 THEN 2 ELSE 1

CacheTable(mode, fs, mt) ==
  [ f \in Files |->
      IF mode = "empty" \/ fs[f] = Absent THEN NoEntry
      ELSE IF mode = "good" THEN Entry(Size(fs[f]), mt[f], Sha256(fs[f]))
      ELSE IF mode = "wrong" THEN Entry(Size(fs[f]), mt[f], Sha256(OtherContent(fs[f])))
      ELSE IF mode = "stale" THEN Entry(Size(fs[f]), mt[f] - 1, Sha256(OtherContent(fs[f])))
      ELSE IF mode = "resized" THEN Entry(Size(fs[f]) + 1, mt[f], Sha256(fs[f]))
      ELSE Entry(Size(fs[f]), mt[f], 0) ]

InitDiff ==
  /\ lfs \in [ Files -> {Absent} \cup Contents ]
  /\ rfs \in [ Files -> {Absent} \cup Contents ]
  /\ lmt = [ f \in Files |-> 1 ]
  /\ rmt = [ f \in Files |-> 1 ]
  /\ isText \in [ Files -> BOOLEAN ]
  /\ lroot = TRUE
  /\ rdirs = { d \in Dirs : \E f \in Files : rfs[f] # Absent /\ IsChild(f, d) }
  /\ included = Files \cup Dirs
  /\ local = walkLocal(included)
  /\ remote = walkRemote(included)
  /\ \E ml \in CacheModes, mr \in CacheModes :
       hc = [ NewCache(FlushInterval, EmptyDoc) EXCEPT !.local = CacheTable(ml, lfs, lmt),
                                                       !.remote = CacheTable(mr, rfs, rmt),
                                                       !.load = "loaded" ]
  /\ reads = { }
  /\ ret = NoCalls
  /\ pc = "analyse"
  /\ checked = 0
  /\ toAdd = << >>
  /\ toUpdate = << >>
  /\ toDelete = << >>
  /\ rt = NoTasks
  /\ RunNotStarted

NextDiff == AnalyseStep \/ AnalyseFail \/ AnalyseReturn \/ ComputeDeletes

SpecDiff == InitDiff /\ [][NextDiff]_vars

\* ----------------------------------------------------- properties: the diff
NoDuplicates(list) == Cardinality(Keys(list)) = Len(list)

AnalysisReturned == pc \in { "deletes", "ensure" }

\* C1: computeRemoteDeletes returns exactly one entry for every key of the
\* remote snapshot that the local snapshot lacks and no other entry, each entry
\* carries the remotePath of its remote record, and the call changes neither
\* snapshot nor the cache.
C1_DeletesAreRemoteOnly ==
  /\ [](pc = "ensure" =>
          /\ Keys(toDelete) = Keys(remote) \ Keys(local)
          /\ NoDuplicates(toDelete)
          /\ \A i \in DOMAIN toDelete :
               toDelete[i].remotePath = Get(remote, toDelete[i].rel).remotePath)
  /\ [][pc = "deletes" => local' = local /\ remote' = remote /\ hc' = hc]_vars

\* A key on both sides stays, a remote-only key is deleted.
C1_Witness ==
  /\ pc = "ensure"
  /\ toDelete # << >>
  /\ Keys(remote) \cap Keys(local) # { }

\* C2: a key is in toAdd if and only if it is in the local snapshot and has no
\* entry in the remote snapshot, whatever the sizes, the classification and the
\* cache hold; during the loop this holds of the keys already visited.
C2_AddIsLocalOnly ==
  /\ AnalysisReturned => Keys(toAdd) = Keys(local) \ Keys(remote)
  /\ pc = "analyse" =>
       Keys(toAdd) = { local[i].rel : i \in 1..checked } \ Keys(remote)

\* One key was added while another, present on both sides with different
\* sizes, was not.
C2_Witness ==
  /\ AnalysisReturned
  /\ toAdd # << >>
  /\ \E rel \in Keys(local) \cap Keys(remote) :
       Get(local, rel).size # Get(remote, rel).size

\* C3: toAdd, toUpdate and toDelete are pairwise key-disjoint, no key occurs
\* twice in one list, toAdd and toUpdate hold local keys only and toUpdate holds
\* keys of both snapshots only.
C3_PlanDisjoint ==
  /\ Keys(toAdd) \cap Keys(toUpdate) = { }
  /\ Keys(toAdd) \cap Keys(toDelete) = { }
  /\ Keys(toUpdate) \cap Keys(toDelete) = { }
  /\ NoDuplicates(toAdd) /\ NoDuplicates(toUpdate) /\ NoDuplicates(toDelete)
  /\ Keys(toAdd) \subseteq Keys(local)
  /\ Keys(toUpdate) \subseteq Keys(local) \cap Keys(remote)

\* A plan with an update and a delete.
C3_Witness ==
  /\ pc = "ensure"
  /\ toUpdate # << >>
  /\ toDelete # << >>

\* ------------------------------------------------------ runTasks on its own
\* runTasks(items, workerCount, handler) with a handler that awaits one
\* operation and then returns or throws.
TasksCall ==
  /\ pc = "tasks"
  /\ rt.state = "idle"
  /\ rt' = StartTasks(rt.items, rt.workerCount, "Tasks")
  /\ UNCHANGED << envVars, remVars, snapVars, hc, reads, ret, pc, checked,
                  toAdd, toUpdate, toDelete, runVars, run >>

\* The handler invocation of worker w settles.
HandlerSettle(w) ==
  /\ rt.state = "running"
  /\ w \in InFlight(rt)
  /\ rt.workers[w].step = "await"
  /\ \E threw \in BOOLEAN : rt' = Settle(rt, w, threw)
  /\ UNCHANGED << envVars, remVars, snapVars, hc, reads, ret, pc, checked,
                  toAdd, toUpdate, toDelete, runVars, run >>

\* await Promise.all(workers) is over.
TasksReturn ==
  /\ rt.state = "running"
  /\ WorkersSettled(rt)
  /\ rt' = Awaited(rt)
  /\ UNCHANGED << envVars, remVars, snapVars, hc, reads, ret, pc, checked,
                  toAdd, toUpdate, toDelete, runVars, run >>

InitTasks ==
  /\ lfs = [ f \in Files |-> Absent ]
  /\ rfs = [ f \in Files |-> Absent ]
  /\ lmt = [ f \in Files |-> 1 ]
  /\ rmt = [ f \in Files |-> 1 ]
  /\ isText = [ f \in Files |-> TRUE ]
  /\ lroot = TRUE
  /\ rdirs = { }
  /\ included = Files \cup Dirs
  /\ local = << >>
  /\ remote = << >>
  /\ hc = [ NewCache(FlushInterval, EmptyDoc) EXCEPT !.load = "loaded" ]
  /\ reads = { }
  /\ ret = NoCalls
  /\ pc = "tasks"
  /\ checked = 0
  /\ toAdd = << >>
  /\ toUpdate = << >>
  /\ toDelete = << >>
  /\ \E n \in 0..MaxItems, wc \in (-1)..MaxWorkers :
       rt = [ NoTasks EXCEPT !.items = [ i \in 1..n |-> [ rel |-> i ] ],
                             !.workerCount = wc ]
  /\ RunNotStarted

NextTasks ==
  \/ TasksCall
  \/ \E w \in 1..MaxWorkers : HandlerSettle(w)
  \/ TasksReturn

SpecTasks == InitTasks /\ [][NextTasks]_vars

\* Every handler invocation settles, and the event loop runs what is ready.
FairSpecTasks ==
  /\ SpecTasks
  /\ WF_vars(TasksCall)
  /\ \A w \in 1..MaxWorkers : WF_vars(HandlerSettle(w))
  /\ WF_vars(TasksReturn)

\* ------------------------------------------------- properties: runTasks
\* C6: the handler is invoked at most once per item in every state, whether or
\* not it throws, and exactly once per item when runTasks has returned; for an
\* empty list runTasks returns with no invocation.
C6_EachItemOnce ==
  /\ \A i \in DOMAIN rt.invoked : rt.invoked[i] <= 1
  /\ rt.state = "resolved" =>
       /\ DOMAIN rt.invoked = DOMAIN rt.items
       /\ \A i \in DOMAIN rt.items : rt.invoked[i] = 1

\* Three items, two workers, one handler threw, runTasks has returned.
C6_Witness ==
  /\ rt.state = "resolved"
  /\ Len(rt.items) >= 3
  /\ Len(rt.workers) = 2
  /\ \E i \in DOMAIN rt.outcome : rt.outcome[i] = "thrown"

\* C7: the number of handler invocations in flight never exceeds
\* max(1, min(workerCount, items.length)).
C7_BoundedInFlight ==
  Cardinality(InFlight(rt)) <= Max(1, Min(rt.workerCount, Len(rt.items)))

\* More workers asked for than items: one invocation per item is in flight.
C7_Witness ==
  /\ rt.workerCount > Len(rt.items)
  /\ Len(rt.items) >= 2
  /\ Cardinality(InFlight(rt)) = Len(rt.items)

\* C8: runTasks never rejects; when the handler of a worker throws, that worker
\* claims the next unclaimed item, if there is one, in the same step; and when
\* runTasks has returned every item was handed to the handler.
C8_ThrowIsIsolated ==
  /\ [](rt.state # "rejected")
  /\ [](rt.state = "resolved" => \A i \in DOMAIN rt.items : rt.invoked[i] = 1)
  /\ [][\A w \in DOMAIN rt.workers :
          ( /\ rt.state = "running"
            /\ rt.workers[w].st = "handler"
            /\ rt'.outcome[rt.workers[w].i] = "thrown" )
          => /\ rt'.state = "running"
             /\ IF rt.index < rt.total
                  THEN /\ rt'.workers[w].st = "handler"
                       /\ rt'.workers[w].i = rt.index + 1
                       /\ rt'.invoked[rt.index + 1] = 1
                  ELSE rt'.workers[w].st = "exited"]_vars

\* A single worker is at a later item after an earlier one threw.
C8_Witness ==
  /\ Len(rt.workers) = 1
  /\ InFlight(rt) # { }
  /\ \E i \in DOMAIN rt.outcome : rt.outcome[i] = "thrown"

\* C9: when runTasks has returned no handler is in flight, no item is
\* unclaimed and every item's handler has settled; and runTasks does return when
\* every handler invocation settles.
C9_ReturnsWhenAllSettled ==
  /\ [](rt.state = "resolved" =>
          /\ InFlight(rt) = { }
          /\ rt.index >= rt.total
          /\ \A i \in DOMAIN rt.items : rt.outcome[i] # "none")
  /\ <>(rt.state = "resolved")

\* Returned after two workers shared three items.
C9_Witness ==
  /\ rt.state = "resolved"
  /\ Len(rt.workers) >= 2
  /\ rt.done = 3

\* ------------------------------------------------------------------ run()
planVars == << toAdd, toUpdate, toDelete >>

\* run(), up to the connect: this.hashCache = createHashCache(...), which
\* starts the load of the cache document and does not wait for it.
RunStart ==
  /\ pc = "start"
  /\ hc' = NewCache(FlushInterval, hc.disk)
  /\ pc' = "connect"
  /\ UNCHANGED << envVars, remVars, snapVars, reads, ret, checked, planVars, rt,
                  runVars, run >>

LoadFailed_halfLoaded(c) ==
  [ c EXCEPT !.local = c.disk.local, !.load = "failed" ]

\* catch { } of the loading block: nothing is assigned.
LoadFailed(c) == [ c EXCEPT !.load = "failed" ]

\* createHashCache, the un-awaited async block: the document is read and parsed
\* and replaces the tables, or the read or the parse throws and the tables stay.
CacheLoad ==
  /\ hc.load = "pending"
  /\ pc \notin { "start", "done", "exited" }
  /\ \E ok \in BOOLEAN :
       hc' = IF ok THEN [ hc EXCEPT !.local = hc.disk.local,
                                    !.remote = hc.disk.remote,
                                    !.load = "loaded" ]
                   ELSE LoadFailed(hc)
  /\ UNCHANGED << envVars, remVars, snapVars, reads, ret, pc, checked, planVars, rt,
                  runVars, run >>

\* if (!skipSync && !fs.existsSync(this.connection.localRoot)) process.exit(1)
LocalRootMissing == ~opt.skipSync /\ ~lroot

\* await sftp.connect(...), and the test of the local root that follows it
\* without an await.
Connect ==
  /\ pc = "connect"
  /\ \E ok \in BOOLEAN :
       IF ok
         THEN /\ sess' = [ sess EXCEPT !.connected = TRUE ]
              /\ pc' = IF LocalRootMissing THEN "exited"
                       ELSE IF opt.skipSync THEN "bypassUp" ELSE "scan"
              /\ run' = IF LocalRootMissing THEN [ run EXCEPT !.exitCode = 1,
                                                              !.fatal = "exit" ]
                                            ELSE run
         ELSE /\ pc' = "catch"
              /\ run' = [ run EXCEPT !.fatal = "connect" ]
              /\ sess' = sess
  /\ UNCHANGED << envVars, remVars, snapVars, hc, reads, ret, checked, planVars, rt,
                  opt, ops, scan, cl, stats >>

\* ScanProgressController.start
start(p) == IF ~p.tty \/ p.interval THEN p ELSE [ p EXCEPT !.interval = TRUE ]

\* ScanProgressController.stop
stop(p) == [ p EXCEPT !.interval = FALSE, !.channels = { } ]

\* ScanProgressController.updateChannel
updateChannel(p, id) ==
  LET q == [ p EXCEPT !.channels = @ \cup { id } ]
  IN  IF ~q.interval THEN start(q) ELSE q

\* ScanProgressController.done
done(p, id) ==
  LET q == [ p EXCEPT !.channels = @ \ { id } ]
  IN  IF q.channels = { } THEN stop(q) ELSE q

\* Phase 1 + 2: the controller is created and both walks are started
\* (parallelScan), or the local one.
ScanStart ==
  /\ pc = "scan"
  /\ scan' = [ NoScan EXCEPT !.l = "run",
                             !.r = IF opt.parallelScan THEN "run" ELSE "idle",
                             !.progress.tty = scan.progress.tty ]
  /\ pc' = "scanning"
  /\ UNCHANGED << envVars, remVars, snapVars, hc, reads, ret, checked, planVars, rt,
                  opt, ops, sess, cl, stats, run >>

\* A walk rejects: if run() is still awaiting the walks, the exception reaches
\* its catch.
ScanFailed ==
  IF pc = "scanning"
    THEN pc' = "catch" /\ run' = [ run EXCEPT !.fatal = "scan" ]
    ELSE pc' = pc /\ run' = run

\* walkLocal resolves with its Map or rejects (readdir or stat failed). In
\* serial mode its resolution starts walkRemote. A walk that resolves has
\* reported its channel and closed it; a walk that rejects has reported the
\* channel if it had reached a file (scanned === 1) before.
LocalScanEnd ==
  /\ scan.l = "run"
  /\ \E ok \in BOOLEAN, reported \in BOOLEAN :
       IF ok
         THEN /\ reported
              /\ scan' = [ scan EXCEPT !.l = "done", !.lres = walkLocal(included),
                                       !.r = IF pc = "scanning" /\ ~opt.parallelScan
                                               THEN "run" ELSE @,
                                       !.progress = done(updateChannel(@, "local"), "local") ]
              /\ UNCHANGED << pc, run >>
         ELSE /\ reported => walkLocal(included) # << >>
              /\ scan' = [ scan EXCEPT !.l = "failed",
                                       !.progress = IF reported THEN updateChannel(@, "local")
                                                                ELSE @ ]
              /\ ScanFailed
  /\ UNCHANGED << envVars, remVars, snapVars, hc, reads, ret, checked, planVars, rt,
                  opt, ops, sess, cl, stats >>

\* walkRemote.recurse after a listing arrived: entries are taken in order until
\* a directory the filter accepts has to be listed.
RECURSIVE Drain(_, _)
Drain(stack, acc) ==
  IF stack = << >>
    THEN [ r |-> "done", rpend |-> << >>, rstack |-> << >>, rres |-> acc ]
  ELSE IF Head(stack) = << >>
    THEN Drain(Tail(stack), acc)
  ELSE LET p == Head(Head(stack))
           rest == << Tail(Head(stack)) >> \o Tail(stack)
       IN  IF p \notin included THEN Drain(rest, acc)
           ELSE IF p \in Dirs
             THEN [ r |-> "run", rpend |-> p, rstack |-> rest, rres |-> acc ]
           ELSE Drain(rest, Append(acc, RemoteRecord(p)))

\* await sftp.list(remoteDir) in walkRemote returns or throws.
RemoteScanList ==
  /\ scan.r = "run"
  /\ \E ok \in BOOLEAN :
       IF ok
         THEN LET d == Drain(<< RemoteListing(scan.rpend) >> \o scan.rstack, scan.rres)
                  p1 == IF scan.rres = << >> /\ d.rres # << >>
                          THEN updateChannel(scan.progress, "remote")
                          ELSE scan.progress
                  p2 == IF d.r = "done" THEN done(updateChannel(p1, "remote"), "remote")
                                        ELSE p1
              IN  /\ scan' = [ scan EXCEPT !.r = d.r, !.rpend = d.rpend,
                                           !.rstack = d.rstack, !.rres = d.rres,
                                           !.progress = p2 ]
                  /\ UNCHANGED << pc, run >>
         ELSE /\ scan' = [ scan EXCEPT !.r = "failed" ]
              /\ ScanFailed
  /\ UNCHANGED << envVars, remVars, snapVars, hc, reads, ret, checked, planVars, rt,
                  opt, ops, sess, cl, stats >>

\* Both walks have resolved: [local, remote] are assigned, scanProgress.stop()
\* is called and phase 3 starts.
ScanJoin ==
  /\ pc = "scanning"
  /\ scan.l = "done"
  /\ scan.r = "done"
  /\ local' = scan.lres
  /\ remote' = scan.rres
  /\ scan' = [ scan EXCEPT !.progress = stop(@) ]
  /\ pc' = "analyse"
  /\ UNCHANGED << envVars, remVars, hc, reads, ret, checked, planVars, rt,
                  opt, ops, sess, cl, stats, run >>

\* ------------------------------------------------ ensureAllRemoteDirsExist
\* The proper ancestor directories of a relative path.
Ancestors(rel) == { SubSeq(rel, 1, i) : i \in 1..(Len(rel) - 1) }

RECURSIVE AddPrefixes_withFile(_, _, _)
AddPrefixes_withFile(rel, i, acc) ==
  IF i > Len(rel) THEN acc
  ELSE AddPrefixes_withFile(rel, i + 1,
                            IF SubSeq(rel, 1, i) \in Range(acc) THEN acc
                            ELSE Append(acc, SubSeq(rel, 1, i)))

\* for (let i = 0; i < parts.length - 1; i += 1) { acc = ...; dirs.add(acc); }
RECURSIVE AddPrefixes(_, _, _)
AddPrefixes(rel, i, acc) ==
  IF i > Len(rel) - 1 THEN acc
  ELSE AddPrefixes(rel, i + 1,
                   IF SubSeq(rel, 1, i) \in Range(acc) THEN acc
                   ELSE Append(acc, SubSeq(rel, 1, i)))

RECURSIVE CollectPrefixes(_, _)
CollectPrefixes(changes, acc) ==
  IF changes = << >> THEN acc
  ELSE CollectPrefixes(Tail(changes), AddPrefixes(Head(changes).rel, 1, acc))

\* Array.sort by number of segments (stable).
RECURSIVE SortByDepth(_, _)
SortByDepth(dirs, depth) ==
  IF \A i \in DOMAIN dirs : Len(dirs[i]) < depth THEN << >>
  ELSE SelectSeq(dirs, LAMBDA x : Len(x) = depth) \o SortByDepth(dirs, depth + 1)

collectDirsFromChanges(changes) == SortByDepth(CollectPrefixes(changes, << >>), 1)

ApplyEnabled_always == TRUE

\* if (!dryRun): the guard of the directory preparation, of phase 5 and of the
\* cleanup.
ApplyEnabled == ~opt.dryRun

AfterEnsureCall_notAwaited(dirs) == "apply"

\* await this.ensureAllRemoteDirsExist(...): run() goes on when the loop over
\* the directories is over.
AfterEnsureCall(dirs) == IF Len(dirs) = 0 THEN "apply" ELSE "ensuring"

\* run(): "Verzeichnisse vorbereiten", up to the first await of
\* ensureAllRemoteDirsExist.
EnsureStart ==
  /\ pc = "ensure"
  /\ IF ApplyEnabled /\ (Len(toAdd) # 0 \/ Len(toUpdate) # 0)
       THEN LET dirs == collectDirsFromChanges(toAdd \o toUpdate)
            IN  /\ stats' = [ stats EXCEPT !.ensuredDirs = @ + Len(dirs) ]
                /\ run' = [ run EXCEPT !.ensure = dirs ]
                /\ pc' = AfterEnsureCall(dirs)
       ELSE /\ pc' = "apply"
            /\ UNCHANGED << stats, run >>
  /\ UNCHANGED << envVars, remVars, snapVars, hc, reads, ret, checked, planVars, rt,
                  opt, ops, sess, scan, cl >>

AfterEnsureRound_rethrow(res, rest) ==
  IF res # "ok" THEN "catch" ELSE IF rest = << >> THEN "apply" ELSE "ensuring"

\* The try/catch inside the loop: whatever the round's outcome, the loop goes
\* on with the next directory and the function returns after the last.
AfterEnsureRound(res, rest) == IF rest = << >> THEN "apply" ELSE "ensuring"

\* One round of the loop: sftp.exists(remoteDir), then sftp.mkdir(remoteDir,
\* true) if it does not exist; a failure of either is logged as a warning.
EnsureDir ==
  /\ pc = "ensuring"
  /\ LET dir == Head(run.ensure)
         rest == Tail(run.ensure)
     IN  /\ \E res \in { "ok", "existsFailed", "mkdirFailed" } :
              /\ res = "mkdirFailed" => dir \notin rdirs
              /\ IF res = "ok" /\ dir \notin rdirs
                   THEN /\ rdirs' = rdirs \cup { dir } \cup Ancestors(dir)
                        /\ stats' = [ stats EXCEPT !.createdDirs = @ + 1 ]
                   ELSE UNCHANGED << rdirs, stats >>
              /\ ops' = IF res # "existsFailed" /\ dir \notin rdirs
                          THEN ops \cup { [ op |-> "mkdir", path |-> dir ] }
                          ELSE ops
              /\ run' = [ run EXCEPT !.ensure = rest,
                                     !.itemFailed = @ \/ res # "ok" ]
              /\ pc' = AfterEnsureRound(res, rest)
  /\ UNCHANGED << envVars, rfs, rmt, snapVars, hc, reads, ret, checked, planVars, rt,
                  opt, sess, scan, cl >>

\* ------------------------------------------------------- phase 5: apply
\* run(): phase 5 starts with runTasks(toAdd, ...), or is skipped in a dry run.
ApplyStart ==
  /\ pc = "apply"
  /\ IF ApplyEnabled
       THEN /\ rt' = StartTasks(toAdd, opt.workers, "Uploads (new)")
            /\ pc' = "applyAdd"
       ELSE /\ pc' = "cleanup"
            /\ rt' = rt
  /\ UNCHANGED << envVars, remVars, snapVars, hc, reads, ret, checked, planVars,
                  runVars, run >>

\* The runTasks call awaited has returned: the next one is made.
ApplyNext ==
  /\ rt.state = "resolved"
  /\ \/ /\ pc = "applyAdd"
        /\ rt' = StartTasks(toUpdate, opt.workers, "Uploads (update)")
        /\ pc' = "applyUpdate"
     \/ /\ pc = "applyUpdate"
        /\ rt' = StartTasks(toDelete, opt.workers, "Deletes")
        /\ pc' = "applyDelete"
     \/ /\ pc = "applyDelete"
        /\ rt' = rt
        /\ pc' = "cleanup"
  /\ UNCHANGED << envVars, remVars, snapVars, hc, reads, ret, checked, planVars,
                  runVars, run >>

\* Upload handler (new, update, bypass), first await: sftp.mkdir(remoteDir,
\* true) inside try/catch.
UploadMkdir(w) ==
  /\ rt.state = "running"
  /\ w \in InFlight(rt)
  /\ rt.workers[w].step = "mkdir"
  /\ LET rel == rt.items[rt.workers[w].i].rel
     IN  /\ ops' = ops \cup { [ op |-> "mkdir", path |-> SubSeq(rel, 1, Len(rel) - 1) ] }
         /\ \E ok \in BOOLEAN :
              rdirs' = IF ok THEN rdirs \cup Ancestors(rel) ELSE rdirs
  /\ rt' = [ rt EXCEPT !.workers[w].step = "put" ]
  /\ UNCHANGED << envVars, rfs, rmt, snapVars, hc, reads, ret, pc, checked, planVars,
                  opt, sess, scan, cl, stats, run >>

\* Upload handler, second await: sftp.put(localPath, remotePath). It succeeds
\* only into an existing directory and from an existing local file.
UploadPut(w) ==
  /\ rt.state = "running"
  /\ w \in InFlight(rt)
  /\ rt.workers[w].step = "put"
  /\ LET rel == rt.items[rt.workers[w].i].rel
     IN  /\ ops' = ops \cup { [ op |-> "put", path |-> rel ] }
         /\ \E ok \in BOOLEAN :
              /\ ok => Ancestors(rel) \subseteq rdirs /\ lfs[rel] # Absent
              /\ rfs' = IF ok THEN [ rfs EXCEPT ![rel] = lfs[rel] ] ELSE rfs
              /\ rmt' = IF ok THEN [ rmt EXCEPT ![rel] = run.no ] ELSE rmt
              /\ rt' = Settle(rt, w, ~ok)
              /\ run' = [ run EXCEPT !.itemFailed = @ \/ ~ok ]
  /\ UNCHANGED << envVars, rdirs, snapVars, hc, reads, ret, pc, checked, planVars,
                  opt, sess, scan, cl, stats >>

\* Delete handler: sftp.delete(remotePath) inside try/catch, so the handler
\* itself never throws.
DeleteFile(w) ==
  /\ rt.state = "running"
  /\ w \in InFlight(rt)
  /\ rt.workers[w].step = "delete"
  /\ LET rel == rt.items[rt.workers[w].i].rel
     IN  /\ ops' = ops \cup { [ op |-> "delete", path |-> rel ] }
         /\ \E ok \in BOOLEAN :
              /\ ok => rfs[rel] # Absent
              /\ rfs' = IF ok THEN [ rfs EXCEPT ![rel] = Absent ] ELSE rfs
              /\ run' = [ run EXCEPT !.itemFailed = @ \/ ~ok ]
         /\ rt' = Settle(rt, w, FALSE)
  /\ UNCHANGED << envVars, rmt, rdirs, snapVars, hc, reads, ret, pc, checked, planVars,
                  opt, sess, scan, cl, stats >>

\* -------------------------------------------------------- cleanupEmptyDirs
Frame_filesIgnored(dir, listing) ==
  [ dir |-> dir, subs |-> SelectSeq(listing, LAMBDA p : p \in Dirs),
    hasFile |-> FALSE, allEmpty |-> TRUE ]

\* A frame of recurse(dir): the subdirectories still to visit, hasFile,
\* allSubdirsEmpty.
Frame(dir, listing) ==
  [ dir |-> dir, subs |-> SelectSeq(listing, LAMBDA p : p \in Dirs),
    hasFile |-> \E i \in DOMAIN listing : listing[i] \notin Dirs,
    allEmpty |-> TRUE ]

CleanupOver(k) ==
  [ st |-> "done", stack |-> << >>, call |-> "none", dir |-> << >>, k |-> k ]

MayRemove_rootToo(dir) == TRUE

\* (!isRoot || this.cleanupEmptyRoots)
MayRemove(dir) == dir # << >> \/ opt.cleanupEmptyRoots

SubdirResult_ignored(allSubdirsEmpty, subEmpty) == allSubdirsEmpty

\* if (!subEmpty) allSubdirsEmpty = false
SubdirResult(allSubdirsEmpty, subEmpty) == allSubdirsEmpty /\ subEmpty

\* recurse, from the loop over subdirs on (Advance), and the return of a value
\* to the calling frame (Deliver). k counts cleanupVisited and cleanupDeleted.
RECURSIVE Advance(_, _), Deliver(_, _, _)
Advance(stack, k) ==
  LET f == Head(stack)
      isEmpty == ~f.hasFile /\ f.allEmpty
  IN  IF f.subs # << >>
        THEN [ st |-> "run",
               stack |-> << [ f EXCEPT !.subs = Tail(@) ] >> \o Tail(stack),
               call |-> "list", dir |-> Head(f.subs),
               k |-> [ k EXCEPT !.cleanupVisited = @ + 1 ] ]
      ELSE IF isEmpty /\ MayRemove(f.dir)
        THEN IF opt.dryRun
               THEN Deliver(Tail(stack), TRUE, [ k EXCEPT !.cleanupDeleted = @ + 1 ])
               ELSE [ st |-> "run", stack |-> stack, call |-> "rmdir",
                      dir |-> f.dir, k |-> k ]
      ELSE Deliver(Tail(stack), isEmpty, k)

Deliver(stack, val, k) ==
  IF stack = << >> THEN CleanupOver(k)
  ELSE Advance(<< [ Head(stack) EXCEPT !.allEmpty = SubdirResult(@, val) ] >> \o Tail(stack), k)

\* run(): the cleanup is started, or skipped.
CleanupStart ==
  /\ pc = "cleanup"
  /\ IF ApplyEnabled /\ opt.cleanupEmptyDirs
       THEN /\ cl' = [ NoCleanup EXCEPT !.st = "run", !.call = "list" ]
            /\ stats' = [ stats EXCEPT !.cleanupVisited = @ + 1 ]
            /\ pc' = "cleaning"
       ELSE /\ pc' = "save"
            /\ UNCHANGED << cl, stats >>
  /\ UNCHANGED << envVars, remVars, snapVars, hc, reads, ret, checked, planVars, rt,
                  opt, ops, sess, scan, run >>

\* this.wlog("Could not list directory during cleanup:", dir) and
\* this.wlog("Could not remove directory:", dir)
Warning(call, dir) == [ call |-> call, dir |-> dir ]

CleanupResult(res, listed, warned) ==
  /\ cl' = [ st |-> res.st, stack |-> res.stack, call |-> res.call, dir |-> res.dir,
             listed |-> cl.listed \cup listed, warned |-> cl.warned \cup warned ]
  /\ stats' = res.k
  /\ pc' = IF res.st = "done" THEN "save" ELSE pc

ListFailure_asEmpty(dir) == TRUE

\* catch of sftp.list in recurse: return false
ListFailure(dir) == FALSE

RmdirResult_ignored(ok) == TRUE

\* return false in the catch of sftp.rmdir, return isEmpty after a removal
RmdirResult(ok) == ok

RmdirFlag_recursive(dir) == TRUE

\* The second argument of sftp.rmdir(dir, false).
RmdirFlag(dir) == FALSE

\* What sftp.rmdir(dir, recursive) leaves of the directories when it succeeds.
RmdirEffect(dirs, dir, recursive) ==
  IF recursive
    THEN { x \in dirs : ~(Len(dir) <= Len(x) /\ SubSeq(x, 1, Len(dir)) = dir) }
    ELSE dirs \ { dir }

\* await sftp.list(dir) in recurse returns or throws.
CleanupList ==
  /\ pc = "cleaning"
  /\ cl.call = "list"
  /\ \E ok \in BOOLEAN :
       /\ CleanupResult(IF ok
                          THEN Advance(<< Frame(cl.dir, RemoteListing(cl.dir)) >> \o cl.stack, stats)
                          ELSE Deliver(cl.stack, ListFailure(cl.dir), stats),
                        { cl.dir },
                        IF ok THEN { } ELSE { Warning("list", cl.dir) })
       /\ run' = [ run EXCEPT !.itemFailed = @ \/ ~ok ]
  /\ UNCHANGED << envVars, remVars, snapVars, hc, reads, ret, checked, planVars, rt,
                  opt, ops, sess, scan >>

\* await sftp.rmdir(dir, false) returns or throws.
CleanupRmdir ==
  /\ pc = "cleaning"
  /\ cl.call = "rmdir"
  /\ ops' = ops \cup { [ op |-> "rmdir", path |-> cl.dir, recursive |-> RmdirFlag(cl.dir) ] }
  /\ \E ok \in BOOLEAN :
       /\ rdirs' = IF ok THEN RmdirEffect(rdirs, cl.dir, RmdirFlag(cl.dir)) ELSE rdirs
       /\ CleanupResult(Deliver(Tail(cl.stack), RmdirResult(ok),
                                IF ok THEN [ stats EXCEPT !.cleanupDeleted = @ + 1 ]
                                      ELSE stats),
                        { },
                        IF ok THEN { } ELSE { Warning("rmdir", cl.dir) })
       /\ run' = [ run EXCEPT !.itemFailed = @ \/ ~ok ]
  /\ UNCHANGED << envVars, rfs, rmt, snapVars, hc, reads, ret, checked, planVars, rt,
                  opt, sess, scan >>

\* ------------------------------------------------- run(): the end of a run
\* await saveCache(true) at the end of the try block.
SaveCache ==
  /\ pc = "save"
  /\ \E ok \in BOOLEAN :
       IF ok
         THEN /\ hc' = Save(hc, TRUE)
              /\ pc' = "finally"
              /\ run' = [ run EXCEPT !.saved = "written" ]
         ELSE /\ hc' = hc
              /\ pc' = "catch"
              /\ run' = [ run EXCEPT !.fatal = "save", !.saved = "failed" ]
  /\ UNCHANGED << envVars, remVars, snapVars, reads, ret, checked, planVars, rt, runVars >>

CatchStatus_kept(code) == code

\* process.exitCode = 1
CatchStatus(code) == 1

\* catch (err): process.exitCode = 1, and the cache is flushed; a failure of
\* that save is ignored.
Catch ==
  /\ pc = "catch"
  /\ \E ok \in BOOLEAN :
       /\ hc' = IF ok THEN Save(hc, TRUE) ELSE hc
       /\ run' = [ run EXCEPT !.exitCode = CatchStatus(@),
                              !.saved = IF ok THEN "written" ELSE "failed" ]
  /\ pc' = "finally"
  /\ UNCHANGED << envVars, remVars, snapVars, reads, ret, checked, planVars, rt, runVars >>

\* finally: if (connected) await sftp.end(), whose failure is only logged.
Finally ==
  /\ pc = "finally"
  /\ sess' = IF sess.connected THEN [ sess EXCEPT !.ended = @ + 1 ] ELSE sess
  /\ run' = [ run EXCEPT !.clean = /\ run.exitCode = 0
                                   /\ ~run.itemFailed
                                   /\ ~opt.dryRun
                                   /\ ~opt.skipSync ]
  /\ pc' = "done"
  /\ UNCHANGED << envVars, remVars, snapVars, hc, reads, ret, checked, planVars, rt,
                  opt, ops, scan, cl, stats >>

\* ------------------------------------------- performBypassOnly (skip-sync)
\* An entry of uploadList / downloadList: a literal relative path, or "dir/*"
\* ("*" when dir is the root).
Exact(path) == [ star |-> FALSE, path |-> path ]
Star(dir) == [ star |-> TRUE, path |-> dir ]

\* sidecar.mjs matchesAny, one pattern: pattern === relPath, or the pattern
\* ends with "*" and relPath starts with what precedes the "*".
SidecarMatch(pat, rel) ==
  IF pat.star THEN pat.path = << >> \/ pat.path \in Ancestors(rel)
              ELSE pat.path = rel

matchesAny(patterns, rel) == \E pat \in patterns : SidecarMatch(pat, rel)

\* minimatch(relPath, pattern, { dot: true }): "*" matches within one segment.
Minimatch(rel, pat) ==
  IF pat.star THEN IsChild(rel, pat.path) ELSE pat.path = rel

\* SftpPushSyncApp.matchesAny
appMatchesAny(patterns, rel) == \E pat \in patterns : Minimatch(rel, pat)

\* isIncluded with no include patterns and excludePatterns = [...uploadList,
\* ...downloadList].
isIncluded(o, rel) == ~appMatchesAny(o.uploadList \cup o.downloadList, rel)

\* The options of a run with sidecar lists.
SidecarOptions(skip, dry, up, down, lists) ==
  [ DefaultOptions EXCEPT !.skipSync = skip, !.dryRun = dry,
                          !.runUploadList = up, !.runDownloadList = down,
                          !.uploadList = lists[1], !.downloadList = lists[2] ]

ExactLists == << { Exact(<< "a" >>) }, { Exact(<< "d", "b" >>) } >>
StarLists == << { Star(<< >>) }, { } >>

\* collectUploadTargets / collectDownloadTargets over the plain walks; the
\* sidecar roots are the roots of the two trees.
Targets(walk, patterns) ==
  LET hits == SelectSeq(walk, LAMBDA m : matchesAny(patterns, m.rel))
  IN  [ i \in 1..Len(hits) |-> Item(hits[i].rel, PosixJoin(RemoteRoot, hits[i].rel)) ]

collectUploadTargets == Targets(walkLocal(Files \cup Dirs), opt.uploadList)

\* walkRemotePlain: walkRemote without a filter.
walkRemotePlain == walkRemote(Files \cup Dirs)

collectDownloadTargets == Targets(walkRemotePlain, opt.downloadList)

BypassFailed ==
  /\ pc' = "catch"
  /\ run' = [ run EXCEPT !.fatal = "bypass" ]
  /\ rt' = rt

\* The upload area: the targets are collected, and uploaded unless dryRun.
BypassUpload ==
  /\ pc = "bypassUp"
  /\ IF opt.runUploadList
       THEN \E ok \in BOOLEAN :
              IF ~ok \/ ~lroot THEN BypassFailed
              ELSE /\ run' = run
                   /\ IF ApplyEnabled
                        THEN /\ rt' = StartTasks(collectUploadTargets, opt.workers,
                                                 "Bypass Uploads")
                             /\ pc' = "bypassUpRun"
                        ELSE /\ rt' = rt
                             /\ pc' = "bypassDown"
       ELSE /\ pc' = "bypassDown"
            /\ UNCHANGED << rt, run >>
  /\ UNCHANGED << envVars, remVars, snapVars, hc, reads, ret, checked, planVars, runVars >>

\* The download area, then the return to run(), which returns without saving
\* the cache.
BypassDownload ==
  /\ \/ pc = "bypassDown"
     \/ pc = "bypassUpRun" /\ rt.state = "resolved"
  /\ IF opt.runDownloadList
       THEN \E ok \in BOOLEAN :
              IF ~ok THEN BypassFailed
              ELSE /\ run' = run
                   /\ IF ApplyEnabled
                        THEN /\ rt' = StartTasks(collectDownloadTargets, opt.workers,
                                                 "Bypass Downloads")
                             /\ pc' = "bypassDownRun"
                        ELSE /\ rt' = rt
                             /\ pc' = "finally"
       ELSE /\ pc' = "finally"
            /\ UNCHANGED << rt, run >>
  /\ UNCHANGED << envVars, remVars, snapVars, hc, reads, ret, checked, planVars, runVars >>

BypassReturn ==
  /\ pc = "bypassDownRun"
  /\ rt.state = "resolved"
  /\ pc' = "finally"
  /\ UNCHANGED << envVars, remVars, snapVars, hc, reads, ret, checked, planVars, rt,
                  runVars, run >>

\* Download handler: fsp.mkdir(localDir), sftp.get(remotePath, localPath).
DownloadGet(w) ==
  /\ rt.state = "running"
  /\ w \in InFlight(rt)
  /\ rt.workers[w].step = "get"
  /\ LET rel == rt.items[rt.workers[w].i].rel
     IN  \E ok \in BOOLEAN :
           /\ ok => rfs[rel] # Absent
           /\ lfs' = IF ok THEN [ lfs EXCEPT ![rel] = rfs[rel] ] ELSE lfs
           /\ lmt' = IF ok THEN [ lmt EXCEPT ![rel] = @ + 1 ] ELSE lmt
           /\ rt' = Settle(rt, w, ~ok)
           /\ run' = [ run EXCEPT !.itemFailed = @ \/ ~ok ]
  /\ UNCHANGED << isText, lroot, included, cli, remVars, snapVars, hc, reads, ret, pc, checked,
                  planVars, runVars >>

\* ------------------------------------------------------------ two runs
\* The command is run again on the trees and the cache file the first run
\* left: a new process, a new app object.
RunAgain ==
  /\ pc = "done"
  /\ run.no = 1
  /\ run.clean
  /\ pc' = "start"
  /\ run' = [ FirstRun EXCEPT !.no = 2, !.clean = run.clean ]
  /\ local' = << >>
  /\ remote' = << >>
  /\ reads' = { }
  /\ ret' = NoCalls
  /\ checked' = 0
  /\ toAdd' = << >>
  /\ toUpdate' = << >>
  /\ toDelete' = << >>
  /\ rt' = NoTasks
  /\ ops' = { }
  /\ sess' = [ connected |-> FALSE, ended |-> 0 ]
  /\ scan' = [ NoScan EXCEPT !.progress.tty = scan.progress.tty ]
  /\ cl' = NoCleanup
  /\ stats' = ZeroStats
  /\ UNCHANGED << envVars, remVars, hc, opt >>

IncludeChoices == SUBSET (Files \cup TopDirs)

\* The trees, the options and the idle program before run(), all but the
\* terminal.
RunEnv ==
  /\ lfs \in [ Files -> { Absent, 1 } ]
  /\ rfs \in [ Files -> { Absent } \cup Contents ]
  /\ cli = NoCli
  /\ lmt = [ f \in Files |-> 1 ]
  /\ rmt = [ f \in Files |-> 0 ]
  /\ isText = [ f \in Files |-> Len(f) = 1 ]
  /\ lroot \in BOOLEAN
  /\ ~lroot => \A f \in Files : lfs[f] = Absent
  /\ rdirs \in { s \in SUBSET TopDirs :
                   \A d \in TopDirs : (\E f \in Files : rfs[f] # Absent /\ IsChild(f, d)) => d \in s }
  /\ \/ /\ included \in IncludeChoices
        /\ \E dry \in BOOLEAN, par \in BOOLEAN :
             opt = [ DefaultOptions EXCEPT !.dryRun = dry, !.parallelScan = par ]
     \/ /\ \E dry \in BOOLEAN, up \in BOOLEAN, down \in BOOLEAN :
             /\ up \/ down
             /\ opt = SidecarOptions(TRUE, dry, up, down, ExactLists)
        /\ included = { p \in Files \cup Dirs : isIncluded(opt, p) }
     \/ /\ \E up \in BOOLEAN, down \in BOOLEAN, lists \in { ExactLists, StarLists } :
             /\ up \/ down
             /\ opt = SidecarOptions(FALSE, FALSE, up, down, lists)
        /\ included = { p \in Files \cup Dirs : isIncluded(opt, p) }
        /\ \A f \in Files : rfs[f] \in { Absent, 2 }
        /\ lroot
  /\ local = << >>
  /\ remote = << >>
  /\ hc = [ NewCache(FlushInterval, EmptyDoc) EXCEPT !.load = "loaded" ]
  /\ reads = { }
  /\ ret = NoCalls
  /\ pc = "start"
  /\ checked = 0
  /\ toAdd = << >>
  /\ toUpdate = << >>
  /\ toDelete = << >>
  /\ rt = NoTasks
  /\ ops = { }
  /\ sess = [ connected |-> FALSE, ended |-> 0 ]
  /\ cl = NoCleanup
  /\ run = FirstRun
  /\ stats = ZeroStats

\* stdout is a terminal.
InitRun == RunEnv /\ scan = NoScan

NextRun ==
  \/ RunStart
  \/ CacheLoad
  \/ Connect
  \/ ScanStart
  \/ LocalScanEnd
  \/ RemoteScanList
  \/ ScanJoin
  \/ AnalyseStep
  \/ AnalyseFail
  \/ AnalyseReturn
  \/ ComputeDeletes
  \/ EnsureStart
  \/ EnsureDir
  \/ ApplyStart
  \/ ApplyNext
  \/ \E w \in 1..MaxWorkers : UploadMkdir(w)
  \/ \E w \in 1..MaxWorkers : UploadPut(w)
  \/ \E w \in 1..MaxWorkers : DeleteFile(w)
  \/ \E w \in 1..MaxWorkers : DownloadGet(w)
  \/ TasksReturn
  \/ CleanupStart
  \/ CleanupList
  \/ CleanupRmdir
  \/ SaveCache
  \/ Catch
  \/ Finally
  \/ BypassUpload
  \/ BypassDownload
  \/ BypassReturn
  \/ RunAgain

SpecRun == InitRun /\ [][NextRun]_vars

\* ------------------------------------------------------ properties of run()
Rels(items) == { items[i].rel : i \in DOMAIN items }

\* run() is past analyseDifferences and computeRemoteDeletes.
PlanComputed ==
  pc \in { "ensure", "ensuring", "apply", "applyAdd", "applyUpdate", "applyDelete",
           "cleanup", "cleaning", "save" }

\* C4: with dryRun = true no mkdir, put, delete or rmdir is ever issued, in
\* normal mode and in skip-sync mode, and in normal mode the plan is still
\* computed: the additions are the local-only keys, the deletions the
\* remote-only keys, the updates the common keys whose contents differ.
C4_DryRunIssuesNothing ==
  opt.dryRun =>
    /\ ops = { }
    /\ PlanComputed =>
         /\ Rels(toAdd) = Keys(local) \ Keys(remote)
         /\ Rels(toDelete) = Keys(remote) \ Keys(local)
         /\ Rels(toUpdate) = { k \in Keys(local) \cap Keys(remote) : lfs[k] # rfs[k] }

\* A dry run in normal mode has ended with a plan of an addition, an update and
\* a deletion behind it, or a dry run in skip-sync mode has ended with both
\* lists enabled.
C4_Witness ==
  /\ opt.dryRun
  /\ pc = "done"
  /\ run.exitCode = 0
  /\ \/ ~opt.skipSync /\ Len(toAdd) + Len(toUpdate) > 0 /\ Len(toDelete) > 0
     \/ opt.skipSync /\ opt.runUploadList /\ opt.runDownloadList /\ lfs[<< "a" >>] # Absent

\* C5: once a scan or a content/hash fetch of the analysis has failed, run() is
\* in its catch or finally block or over, and has issued no mkdir, put, delete
\* or rmdir.
C5_FailedScanAppliesNothing ==
  run.fatal \in { "scan", "analyse" } =>
    /\ pc \in { "catch", "finally", "done" }
    /\ ops = { }

\* The analysis failed with a part of the plan already collected, and the run
\* is over with exit status 1.
C5_Witness ==
  /\ run.fatal = "analyse"
  /\ Len(toAdd) > 0
  /\ pc = "done"
  /\ run.exitCode = 1

\* C10: the second run after a non-dry run that applied its whole plan without
\* a failure computes an empty plan, whatever the inclusion predicate.
C10_SecondRunPlanEmpty ==
  (run.no = 2 /\ run.clean /\ PlanComputed) =>
    /\ toAdd = << >>
    /\ toUpdate = << >>
    /\ toDelete = << >>

\* ------------------------------------------------ the hash cache by itself
MaxFlush == 2

\* A caller holds the records of the current trees and asks for the hash of
\* one file: getLocalHash(rel, meta). hashLocalFile may reject.
LocalHashCall(f) ==
  /\ pc = "cache"
  /\ lfs[f] # Absent
  /\ LET res == GetLocalHash(hc, f, LocalRecord(f))
     IN  \E ok \in BOOLEAN :
           /\ ok \/ res.read
           /\ reads' = IF res.read THEN reads \cup { << "local", f >> } ELSE reads
           /\ hc' = IF ok THEN res.c ELSE hc
           /\ ret' = IF ok THEN [ ret EXCEPT !.local = Returned(@, f, res) ] ELSE ret
  /\ UNCHANGED << envVars, remVars, snapVars, pc, checked, planVars, rt, runVars, run >>

\* getRemoteHash(rel, meta, sftp). hashRemoteFile may reject.
RemoteHashCall(f) ==
  /\ pc = "cache"
  /\ rfs[f] # Absent
  /\ LET res == GetRemoteHash(hc, f, RemoteRecord(f))
     IN  \E ok \in BOOLEAN :
           /\ ok \/ res.read
           /\ reads' = IF res.read THEN reads \cup { << "remote", f >> } ELSE reads
           /\ hc' = IF ok THEN res.c ELSE hc
           /\ ret' = IF ok THEN [ ret EXCEPT !.remote = Returned(@, f, res) ] ELSE ret
  /\ UNCHANGED << envVars, remVars, snapVars, pc, checked, planVars, rt, runVars, run >>

\* save(force) called from outside.
SaveCall ==
  /\ pc = "cache"
  /\ \E force \in BOOLEAN :
       /\ hc.dirty \/ force
       /\ hc' = Save(hc, force)
  /\ hc' # hc
  /\ UNCHANGED << envVars, remVars, snapVars, reads, ret, pc, checked, planVars, rt,
                  runVars, run >>

InitCache ==
  /\ \E c \in Contents : lfs = [ f \in Files |-> c ]
  /\ rfs = [ f \in Files |-> OtherContent(lfs[f]) ]
  /\ lmt = [ f \in Files |-> 1 ]
  /\ rmt = [ f \in Files |-> 1 ]
  /\ isText = [ f \in Files |-> FALSE ]
  /\ lroot = TRUE
  /\ rdirs = TopDirs
  /\ included = Files \cup Dirs
  /\ local = walkLocal(included)
  /\ remote = walkRemote(included)
  /\ \E ml \in CacheModes, mr \in CacheModes, fi \in { 1, MaxFlush } :
       hc = [ NewCache(fi, EmptyDoc) EXCEPT !.local = CacheTable(ml, lfs, lmt),
                                            !.remote = CacheTable(mr, rfs, rmt),
                                            !.load = "loaded" ]
  /\ reads = { }
  /\ ret = NoCalls
  /\ pc = "cache"
  /\ checked = 0
  /\ toAdd = << >>
  /\ toUpdate = << >>
  /\ toDelete = << >>
  /\ rt = NoTasks
  /\ RunNotStarted

NextCache ==
  \/ \E f \in Files : LocalHashCall(f)
  \/ \E f \in Files : RemoteHashCall(f)
  \/ SaveCall

SpecCache == InitCache /\ [][NextCache]_vars

\* The record a caller passes for rel on a side, as << size, timestamp >>.
CurrentMeta(side, rel) ==
  IF side = "local" THEN << LocalRecord(rel).size, LocalRecord(rel).mtimeMs >>
                    ELSE << RemoteRecord(rel).size, RemoteRecord(rel).modifyTime >>

\* An entry exists for rel on the side and its size and timestamp equal the
\* current record's.
EntryMatches(side, rel) ==
  /\ hc[side][rel].present
  /\ hc[side][rel].size = CurrentMeta(side, rel)[1]
  /\ hc[side][rel].ts = CurrentMeta(side, rel)[2]

Sides == { "local", "remote" }

C12_MissRecomputes ==
  [][ \A s \in Sides :
        (/\ ret'[s].tick # ret[s].tick
         /\ ~EntryMatches(s, ret'[s].rel))
        => LET rel == ret'[s].rel
               content == IF s = "local" THEN lfs[rel] ELSE rfs[rel]
               new == Entry(CurrentMeta(s, rel)[1], CurrentMeta(s, rel)[2], Sha256(content))
           IN  /\ ret'[s].read
               /\ << s, rel >> \in reads'
               /\ ret'[s].hash = Sha256(content)
               /\ hc'[s] = [ hc[s] EXCEPT ![rel] = new ]
               /\ \A o \in Sides \ { s } : hc'[o] = hc[o]
               /\ IF hc.dirtyCount + 1 >= hc.flushInterval
                    THEN ~hc'.dirty /\ hc'.dirtyCount = 0 /\ hc'.disk = Doc(hc')
                    ELSE /\ hc'.dirty
                         /\ hc'.dirtyCount = hc.dirtyCount + 1
                         /\ hc'.disk = hc.disk ]_vars

\* A local lookup was answered by reading the content over an entry with an
\* older timestamp; the new entry is in the table and the cache is dirty.
C12_Witness ==
  /\ pc = "cache"
  /\ ret.local.tick = 1
  /\ ret.local.read
  /\ hc.local[ret.local.rel] = Entry(CurrentMeta("local", ret.local.rel)[1],
                                     CurrentMeta("local", ret.local.rel)[2],
                                     ret.local.hash)
  /\ hc.local[<< "a" >>].ts # hc.local[<< "d", "b" >>].ts
  /\ hc.dirty
  /\ hc.dirtyCount = 1

\* The run is over: run() has returned or the process has exited.
RunOver == pc \in { "done", "exited" }

\* C13: every run that created the cache has called save(true) by the time it
\* is over, on the success path and on every error path.
C13_EveryRunFlushes ==
  (RunOver /\ run.no = 1) => run.saved # "none"

\* The loading block has given up and the analysis of this run is behind.
LoadFailedRun == hc.load = "failed" /\ PlanComputed /\ run.fatal = "none"

\* C14: a failed load of the cache document changes nothing but the state of the
\* load: the tables stay as createHashCache made them (empty), no exception
\* reaches run(), and the run goes on and reads both sides of every comparison
\* by hash it makes.
C14_FailedLoadStartsEmpty ==
  /\ [][ (hc.load = "pending" /\ hc'.load = "failed")
           => /\ hc'.local = hc.local
              /\ hc'.remote = hc.remote
              /\ pc' = pc
              /\ run' = run ]_vars
  /\ []( (pc = "connect" /\ hc.load # "loaded")
           => hc.local = EmptyDoc.local /\ hc.remote = EmptyDoc.remote )
  /\ []( LoadFailedRun
           => \A i \in DOMAIN local :
                (/\ ~local[i].isText
                 /\ Has(remote, local[i].rel)
                 /\ Get(remote, local[i].rel).size = local[i].size)
                => /\ << "local", local[i].rel >> \in reads
                   /\ << "remote", local[i].rel >> \in reads )

\* The second run could not load the document the first run wrote, compared
\* the binary file by hash and went on to save.
C14_Witness ==
  /\ run.no = 2
  /\ hc.disk # EmptyDoc
  /\ hc.load = "failed"
  /\ pc = "save"
  /\ run.fatal = "none"
  /\ << "remote", << "d", "b" >> >> \in reads

\* C15: when the run is over end() was called exactly once if connect()
\* succeeded, and not at all if it failed.
C15_SessionEndedOnce ==
  RunOver => sess.ended = (IF sess.connected THEN 1 ELSE 0)

\* ------------------------------------------------ cleanupEmptyDirs by itself
\* cleanupEmptyDirs(sftp, rootDir, dryRun) is called on a remote tree.
CleanupCall ==
  /\ pc = "cleanupCall"
  /\ cl' = [ NoCleanup EXCEPT !.st = "run", !.call = "list" ]
  /\ stats' = [ stats EXCEPT !.cleanupVisited = @ + 1 ]
  /\ pc' = "cleaning"
  /\ UNCHANGED << envVars, remVars, snapVars, hc, reads, ret, checked, planVars, rt,
                  opt, ops, sess, scan, run >>

\* A remote tree: a directory exists if its parent does, and the parent of a
\* file exists.
TreeOK(fs, dirs) ==
  /\ \A d \in dirs : Ancestors(d) \subseteq dirs
  /\ \A f \in Files : fs[f] # Absent => Ancestors(f) \subseteq dirs

InitCleanup ==
  /\ cli = NoCli
  /\ lfs = [ f \in Files |-> Absent ]
  /\ lmt = [ f \in Files |-> 1 ]
  /\ isText = [ f \in Files |-> FALSE ]
  /\ lroot = TRUE
  /\ rfs \in [ Files -> { Absent, 1 } ]
  /\ rmt = [ f \in Files |-> 1 ]
  /\ rdirs \in { s \in SUBSET Dirs : TreeOK(rfs, s) }
  /\ included \in { Files \cup Dirs, Dirs }
  /\ local = << >>
  /\ remote = << >>
  /\ hc = [ NewCache(FlushInterval, EmptyDoc) EXCEPT !.load = "loaded" ]
  /\ reads = { }
  /\ ret = NoCalls
  /\ pc = "cleanupCall"
  /\ checked = 0
  /\ toAdd = << >>
  /\ toUpdate = << >>
  /\ toDelete = << >>
  /\ rt = NoTasks
  /\ \E dry \in BOOLEAN, roots \in BOOLEAN :
       opt = [ DefaultOptions EXCEPT !.dryRun = dry, !.cleanupEmptyRoots = roots ]
  /\ ops = { }
  /\ sess = [ connected |-> TRUE, ended |-> 0 ]
  /\ scan = NoScan
  /\ cl = NoCleanup
  /\ run = FirstRun
  /\ stats = ZeroStats

NextCleanup ==
  \/ CleanupCall
  \/ CleanupList
  \/ CleanupRmdir

SpecCleanup == InitCleanup /\ [][NextCleanup]_vars

\* dir is path or an ancestor of path; the root is << >>.
IsWithin(path, dir) == Len(dir) <= Len(path) /\ SubSeq(path, 1, Len(dir)) = dir

\* The subtree of dir holds a non-directory entry.
HoldsFile(dir) == \E f \in Files : rfs[f] # Absent /\ IsWithin(f, dir)

Rmdirs == { o.path : o \in { x \in ops : x.op = "rmdir" } }

\* C16: cleanupEmptyDirs never calls rmdir on a directory whose subtree holds a
\* file (which covers every ancestor of the file's directory), whatever the
\* list and rmdir calls answer and whether or not the inclusion predicate
\* accepts the file; and no file disappears.
C16_NoRmdirAboveFile ==
  /\ [](\A dir \in Rmdirs : ~HoldsFile(dir))
  /\ [][rfs' = rfs]_vars

\* The cleanup is over, it removed the nested directory, and the directory
\* above it, which holds a file the inclusion predicate rejects, is still
\* there.
C16_Witness ==
  /\ cl.st = "done"
  /\ << "d", "e" >> \in Rmdirs
  /\ rfs[<< "d", "b" >>] # Absent
  /\ << "d", "b" >> \notin included
  /\ << "d" >> \in rdirs
  /\ opt.cleanupEmptyRoots

\* The cleanup has returned and no list or rmdir call failed.
CleanupDoneClean == cl.st = "done" /\ ~run.itemFailed /\ ~opt.dryRun

\* C17: when rmdir is called on a directory none of the directories below it
\* exists any more, and after a cleanup without a failed call the directories
\* left below the root are those that hold a file.
C17_PostOrderRemoval ==
  /\ [][ \A dir \in Rmdirs' \ Rmdirs :
           \A c \in rdirs : ~(c # dir /\ IsWithin(c, dir)) ]_vars
  /\ []( CleanupDoneClean => \A d \in rdirs : HoldsFile(d) )

\* A directory and the directory nested in it were both removed by a cleanup
\* without a failed call.
C17_Witness ==
  /\ CleanupDoneClean
  /\ Rmdirs = { << "d" >>, << "d", "e" >> }
  /\ rdirs = { }

\* C18: rmdir is never called on the root while cleanupEmptyRoots is false;
\* with cleanupEmptyRoots true a cleanup without a failed call removes a root
\* whose subtree holds no file.
C18_RootKeptUnlessEnabled ==
  /\ ~opt.cleanupEmptyRoots => << >> \notin Rmdirs
  /\ (opt.cleanupEmptyRoots /\ CleanupDoneClean /\ ~HoldsFile(<< >>)) => << >> \in Rmdirs

\* cleanupEmptyRoots is false, the cleanup removed everything below a root
\* that holds no file, and has returned.
C18_Witness ==
  /\ ~opt.cleanupEmptyRoots
  /\ CleanupDoneClean
  /\ ~HoldsFile(<< >>)
  /\ << "d" >> \in Rmdirs
  /\ rdirs = { }

\* ------------------------------------------------- the order of the phases
\* The ancestor directories of the additions and updates.
PlanDirs == UNION { Ancestors(x.rel) : x \in Range(toAdd \o toUpdate) }

Puts == { o \in ops : o.op = "put" }

\* C19: in a non-dry run in normal mode, a put is issued only when
\* ensureAllRemoteDirsExist has gone through every ancestor directory of the
\* additions and updates; at the first put, if no call had failed, these
\* directories all exist.
C19_DirsBeforeUploads ==
  [][ (~opt.skipSync /\ Puts' \ Puts # { })
        => /\ pc \in { "applyAdd", "applyUpdate" }
           /\ run.ensure = << >>
           /\ stats.ensuredDirs = Cardinality(PlanDirs)
           /\ (Puts = { } /\ ~run.itemFailed) => PlanDirs \subseteq rdirs ]_vars

\* The directory was created by ensureAllRemoteDirsExist and the file in it was
\* then uploaded.
C19_Witness ==
  /\ ~opt.skipSync
  /\ stats.createdDirs = 1
  /\ [ op |-> "put", path |-> << "d", "b" >> ] \in ops
  /\ rfs[<< "d", "b" >>] = lfs[<< "d", "b" >>]

\* C20: while cleanupEmptyDirs runs, the runTasks call over toDelete has
\* returned, no handler is in flight and the handler of every item of toDelete
\* has settled.
C20_CleanupAfterDeletes ==
  pc = "cleaning"
    => /\ rt.label = "Deletes"
       /\ rt.state = "resolved"
       /\ InFlight(rt) = { }
       /\ rt.total = Len(toDelete)
       /\ \A i \in 1..Len(toDelete) : rt.invoked[i] = 1 /\ rt.outcome[i] # "none"

\* Two deletions were planned and the first list call of the cleanup is
\* awaited.
C20_Witness ==
  /\ pc = "cleaning"
  /\ Len(toDelete) = 2
  /\ cl.call = "list"
  /\ cl.stack = << >>
  /\ stats.cleanupVisited = 1

\* ------------------------------------------------------ completion status
\* C21: a run that failed in connect, scan or analysis ends with a non-zero
\* status, and a run in which nothing reached the catch block ends with status
\* 0, whatever put, delete, pre-creation, list or rmdir calls failed in it.
C21_StatusReflectsFatalOnly ==
  pc = "done" =>
    /\ run.fatal \in { "connect", "scan", "analyse" } => run.exitCode # 0
    /\ run.fatal = "none" => run.exitCode = 0

\* A put failed, the run went on through the deletes and the cleanup and ended
\* with status 0.
C21_Witness ==
  /\ pc = "done"
  /\ run.itemFailed
  /\ run.exitCode = 0
  /\ [ op |-> "put", path |-> << "d", "b" >> ] \in ops
  /\ rfs[<< "d", "b" >>] # lfs[<< "d", "b" >>]
  /\ cl.st = "done"

\* -------------------------------------------------------------- sidecar
\* C22: a non-dry run in normal mode with runUploadList or runDownloadList set
\* that ended without any failure has transferred the files of the enabled
\* lists: the listed local files are on the remote side and the listed remote
\* files on the local side.
C22_SidecarRunsWithSync ==
  (pc = "done" /\ run.clean /\ ~opt.skipSync) =>
    /\ opt.runUploadList =>
         \A f \in Files : (matchesAny(opt.uploadList, f) /\ lfs[f] # Absent) => rfs[f] = lfs[f]
    /\ opt.runDownloadList =>
         \A f \in Files : (matchesAny(opt.downloadList, f) /\ rfs[f] # Absent) => lfs[f] = rfs[f]

\* C23: in normal mode no path that an entry of uploadList or downloadList
\* matches is in toAdd, toUpdate or toDelete.
C23_SidecarPathsNotPlanned ==
  ~opt.skipSync =>
    \A f \in Files :
      matchesAny(opt.uploadList \cup opt.downloadList, f)
        => f \notin Rels(toAdd) \cup Rels(toUpdate) \cup Rels(toDelete)

\* ---------------------------------------------------------------- scans
\* run() holds the two snapshots and has not started to compare them.
ScansJoined == pc = "analyse" /\ checked = 0 /\ run.no = 1 /\ ~opt.skipSync

SameFilePaths == \A f \in Files : (lfs[f] # Absent) <=> (rfs[f] # Absent)

\* C24: when both trees hold the same file paths the two snapshots have the
\* same keys, namely the included file paths, and no key is a directory.
C24_ScansAgree ==
  (ScansJoined /\ SameFilePaths) =>
    /\ Rels(local) = Rels(remote)
    /\ Rels(remote) = { f \in Files : rfs[f] # Absent /\ f \in included }
    /\ Rels(local) \cap Dirs = { }
    /\ Rels(remote) \cap Dirs = { }

\* ------------------------------------------- analyseDifferences, per key
\* A step that is one iteration of the loop of analyseDifferences.
Iteration == pc = "analyse" /\ checked < Len(local) /\ checked' = checked + 1

\* The key of the iteration is on both sides.
OnBothSides == Has(remote, CurLocal.rel)

CurRemote == Get(remote, CurLocal.rel)

\* C25: an iteration over a key on both sides whose sizes differ appends the
\* key to toUpdate and does nothing else: no content is read, no hash lookup
\* returns, the cache is unchanged; for text and binary records.
C25_SizeMismatchIsUpdate ==
  [][ (Iteration /\ OnBothSides /\ CurLocal.size # CurRemote.size) =>
        /\ toUpdate' = Append(toUpdate, Item(CurLocal.rel, PosixJoin(RemoteRoot, CurLocal.rel)))
        /\ toAdd' = toAdd
        /\ reads' = reads
        /\ ret' = ret
        /\ hc' = hc
        /\ pc' = "analyse" ]_vars

C25_Witness ==
  /\ pc = "analyse" /\ checked = 2
  /\ Rels(toUpdate) = Files
  /\ \A f \in Files : lfs[f] # Absent /\ rfs[f] # Absent /\ Size(lfs[f]) # Size(rfs[f])
  /\ isText[<< "a" >>] /\ ~isText[<< "d", "b" >>]
  /\ reads = { } /\ ret = NoCalls

\* C26: an iteration over a binary key on both sides with equal sizes that
\* completes obtains one fingerprint per side and appends the key to toUpdate
\* exactly when the two differ; toAdd is unchanged, and no key of the local
\* snapshot is ever in toDelete.
C26_BinaryByFingerprint ==
  /\ [][ (Iteration /\ pc' = "analyse" /\ NeedsContent /\ ~CurLocal.isText) =>
           /\ ret'.local.tick # ret.local.tick /\ ret'.local.rel = CurLocal.rel
           /\ ret'.remote.tick # ret.remote.tick /\ ret'.remote.rel = CurLocal.rel
           /\ toAdd' = toAdd
           /\ IF ret'.local.hash # ret'.remote.hash
                THEN toUpdate' = Append(toUpdate, Item(CurLocal.rel, PosixJoin(RemoteRoot, CurLocal.rel)))
                ELSE toUpdate' = toUpdate ]_vars
  /\ [](Rels(toDelete) \cap Rels(local) = { })

C26_Witness ==
  /\ pc = "analyse" /\ checked = Len(local) /\ checked > 0
  /\ ~isText[<< "d", "b" >>]
  /\ ret.local.rel = << "d", "b" >> /\ ret.remote.rel = << "d", "b" >>
  /\ ret.local.hash = ret.remote.hash /\ ret.local.hash # 0
  /\ lfs[<< "d", "b" >>] # rfs[<< "d", "b" >>]
  /\ << "d", "b" >> \notin Rels(toAdd) \cup Rels(toUpdate)

\* C27: an iteration over a text key on both sides with equal sizes that
\* completes appends the key to toUpdate exactly when the decoded contents
\* differ; toAdd is unchanged.
C27_TextByContent ==
  /\ [][ (Iteration /\ pc' = "analyse" /\ NeedsContent /\ CurLocal.isText) =>
           /\ toAdd' = toAdd
           /\ IF Decode(lfs[CurLocal.localPath]) # Decode(rfs[CurLocal.rel])
                THEN toUpdate' = Append(toUpdate, Item(CurLocal.rel, PosixJoin(RemoteRoot, CurLocal.rel)))
                ELSE toUpdate' = toUpdate ]_vars
  /\ [](Rels(toDelete) \cap Rels(local) = { })

C27_Witness ==
  /\ pc = "analyse" /\ checked = Len(local) /\ checked > 0
  /\ isText[<< "a" >>]
  /\ lfs[<< "a" >>] # Absent /\ rfs[<< "a" >>] # Absent
  /\ lfs[<< "a" >>] # rfs[<< "a" >>]
  /\ Decode(lfs[<< "a" >>]) = Decode(rfs[<< "a" >>])
  /\ << "local", << "a" >> >> \in reads /\ << "remote", << "a" >> >> \in reads
  /\ << "a" >> \notin Rels(toAdd) \cup Rels(toUpdate)

\* What C29 calls the cache: both tables and the dirty bookkeeping.
CacheState(c) == << c.local, c.remote, c.dirty, c.dirtyCount >>

\* C29: a step of analyseDifferences changes the cache only in an iteration
\* over a binary key on both sides with equal sizes, and then only the entries
\* of that key.
C29_CacheTouchedOnlyForBinary ==
  [][ CacheState(hc') # CacheState(hc) =>
        /\ Iteration /\ NeedsContent /\ ~CurLocal.isText
        /\ \A f \in Files \ { CurLocal.rel } :
             hc'.local[f] = hc.local[f] /\ hc'.remote[f] = hc.remote[f] ]_vars

C29_Witness ==
  /\ pc = "analyse" /\ checked = 2
  /\ isText[<< "a" >>] /\ ~isText[<< "d", "b" >>]
  /\ lfs[<< "a" >>] = 1 /\ rfs[<< "a" >>] = 2
  /\ hc.local[<< "d", "b" >>].present /\ hc.remote[<< "d", "b" >>].present
  /\ ~hc.local[<< "a" >>].present /\ ~hc.remote[<< "a" >>].present
  /\ hc.dirtyCount = 2

\* ------------------------------------------- the hash cache, save in flight
\* save() is asynchronous: the document is serialised at the call, dirty and
\* dirtyCount are reset when fsp.writeFile has resolved, and other calls run
\* in between. writes holds the documents whose writeFile has not settled.
MaxWrites == 2

RemoveAt(s, i) == SubSeq(s, 1, i - 1) \o SubSeq(s, i + 1, Len(s))

\* save(force) up to `await fsp.writeFile(...)`.
SaveBegin(c, force, caller) ==
  IF ~c.dirty /\ ~force THEN c
  ELSE [ c EXCEPT !.writes = Append(@, [ doc |-> Doc(c), caller |-> caller ]) ]

\* save(force) from the resolved writeFile on.
SaveEnd(c, i) ==
  [ c EXCEPT !.disk = c.writes[i].doc, !.dirty = FALSE, !.dirtyCount = 0,
             !.writes = RemoveAt(@, i) ]

\* writeFile rejected: save rejects, nothing is reset.
SaveRejected(c, i) == [ c EXCEPT !.writes = RemoveAt(@, i) ]

MarkDirtyBegin_late(c) ==
  LET c1 == [ c EXCEPT !.dirty = TRUE, !.dirtyCount = @ + 1 ]
  IN  IF c1.dirtyCount > c1.flushInterval THEN SaveBegin(c1, FALSE, "markDirty") ELSE c1

\* markDirty() up to the await inside save().
MarkDirtyBegin(c) ==
  LET c1 == [ c EXCEPT !.dirty = TRUE, !.dirtyCount = @ + 1 ]
  IN  IF c1.dirtyCount >= c1.flushInterval THEN SaveBegin(c1, FALSE, "markDirty") ELSE c1

SaveReturned(last, wrote, caller) ==
  [ tick |-> 1 - last.tick, wrote |-> wrote, caller |-> caller ]

\* getLocalHash / getRemoteHash after a miss, from the resolved hash on: the
\* entry is stored and markDirty() is called.
FlushStore(side, f) ==
  /\ pc = "flush"
  /\ Len(hc.writes) < MaxWrites
  /\ IF side = "local"
       THEN /\ lfs[f] # Absent
            /\ ~CacheHit(hc.local[f], LocalRecord(f).size, LocalRecord(f).mtimeMs)
            /\ hc' = MarkDirtyBegin([ hc EXCEPT !.local[f] =
                        Entry(LocalRecord(f).size, LocalRecord(f).mtimeMs, Sha256(lfs[f])) ])
       ELSE /\ rfs[f] # Absent
            /\ ~CacheHit(hc.remote[f], RemoteRecord(f).size, RemoteRecord(f).modifyTime)
            /\ hc' = MarkDirtyBegin([ hc EXCEPT !.remote[f] =
                        Entry(RemoteRecord(f).size, RemoteRecord(f).modifyTime, Sha256(rfs[f])) ])
  /\ UNCHANGED << envVars, remVars, snapVars, reads, ret, pc, checked, planVars, rt,
                  runVars, run >>

\* save(force) called from outside, up to its first await or its early return.
FlushSaveCall ==
  /\ pc = "flush"
  /\ \E force \in BOOLEAN :
       IF ~hc.dirty /\ ~force
         THEN /\ ret.save.wrote \/ ret.save.tick = 0
              /\ hc' = hc
              /\ ret' = [ ret EXCEPT !.save = SaveReturned(@, FALSE, "plain") ]
         ELSE /\ Len(hc.writes) < MaxWrites
              /\ hc' = SaveBegin(hc, force, IF force THEN "forced" ELSE "plain")
              /\ ret' = ret
  /\ UNCHANGED << envVars, remVars, snapVars, reads, pc, checked, planVars, rt,
                  runVars, run >>

\* One writeFile settles; the writes in flight settle in any order.
FlushWriteDone ==
  /\ pc = "flush"
  /\ \E i \in 1..Len(hc.writes), ok \in BOOLEAN :
       IF ok THEN /\ hc' = SaveEnd(hc, i)
                  /\ ret' = [ ret EXCEPT !.save = SaveReturned(@, TRUE, hc.writes[i].caller) ]
             ELSE /\ hc' = SaveRejected(hc, i)
                  /\ ret' = ret
  /\ UNCHANGED << envVars, remVars, snapVars, reads, pc, checked, planVars, rt,
                  runVars, run >>

InitFlush ==
  /\ lfs = [ f \in Files |-> 1 ]
  /\ rfs = [ f \in Files |-> OtherContent(lfs[f]) ]
  /\ lmt = [ f \in Files |-> 1 ]
  /\ rmt = [ f \in Files |-> 1 ]
  /\ isText = [ f \in Files |-> FALSE ]
  /\ lroot = TRUE
  /\ rdirs = TopDirs
  /\ included = Files \cup Dirs
  /\ local = walkLocal(included)
  /\ remote = walkRemote(included)
  /\ \E fi \in { 1, MaxFlush } :
       hc = [ NewCache(fi, EmptyDoc) EXCEPT !.load = "loaded" ]
  /\ reads = { }
  /\ ret = NoCalls
  /\ pc = "flush"
  /\ checked = 0
  /\ toAdd = << >>
  /\ toUpdate = << >>
  /\ toDelete = << >>
  /\ rt = NoTasks
  /\ RunNotStarted

NextFlush ==
  \/ \E side \in Sides, f \in Files : FlushStore(side, f)
  \/ FlushSaveCall
  \/ FlushWriteDone

SpecFlush == InitFlush /\ [][NextFlush]_vars

\* A step in which an entry is stored.
EntryStored == hc'.local # hc.local \/ hc'.remote # hc.remote

\* A step in which a save begins to write.
WriteBegun == Len(hc'.writes) > Len(hc.writes)

\* C30: a stored entry starts a write exactly when it is the flushInterval-th
\* (or a later one) since the counter was last reset; a non-forced write never
\* starts on a clean cache and a non-forced save of a clean cache returns
\* without a write; when a write has completed, dirty is false and dirtyCount
\* is 0.
C30_FlushAtInterval ==
  /\ [][ EntryStored => /\ hc'.dirtyCount = hc.dirtyCount + 1
                        /\ hc'.dirty
                        /\ WriteBegun <=> (hc.dirtyCount + 1 >= hc.flushInterval)
                        /\ WriteBegun => hc'.writes[Len(hc'.writes)].caller = "markDirty" ]_vars
  /\ [][ (WriteBegun /\ hc'.writes[Len(hc'.writes)].caller = "markDirty") => EntryStored ]_vars
  /\ [][ (WriteBegun /\ hc'.writes[Len(hc'.writes)].caller # "forced") => hc'.dirty ]_vars
  /\ [][ (ret'.save # ret.save /\ ~ret'.save.wrote) =>
           (~hc.dirty /\ hc'.disk = hc.disk /\ hc'.writes = hc.writes) ]_vars
  /\ [][ (ret'.save # ret.save /\ ret'.save.wrote) =>
           (~hc'.dirty /\ hc'.dirtyCount = 0) ]_vars

C30_Witness ==
  /\ pc = "flush"
  /\ hc.flushInterval = MaxFlush
  /\ ret.save.wrote /\ ret.save.caller = "markDirty"
  /\ ~hc.dirty /\ hc.dirtyCount = 0 /\ hc.writes = << >>
  /\ hc.disk # EmptyDoc

\* ------------------------------------------------- bin/sftp-push-sync.mjs
MaxArgs == 3

\* What may follow the target on the command line.
Tokens == { "--dry-run", "--sidecar-upload", "--skip-sync", "--verbose", "--laconic",
            "--config", "my.json" }

ArgLists == UNION { [ 1..n -> Tokens ] : n \in 0..MaxArgs }

StartsWithDash(a) == a # "my.json"

\* One pass of `for (let i = 0; i < rest.length; i += 1) switch (a)`.
CliFlag ==
  /\ pc = "cli"
  /\ cli.st = "flags"
  /\ cli.i <= Len(cli.rest)
  /\ LET a == cli.rest[cli.i]
         step == [ cli EXCEPT !.i = @ + 1 ]
     IN  cli' =
           CASE a = "--dry-run" -> [ step EXCEPT !.DRY_RUN = TRUE ]
             [] a = "--sidecar-upload" -> [ step EXCEPT !.RUN_UPLOAD_LIST = TRUE ]
             [] a = "--sidecar-download" -> [ step EXCEPT !.RUN_DOWNLOAD_LIST = TRUE ]
             [] a = "--skip-sync" -> [ step EXCEPT !.SKIP_SYNC = TRUE ]
             [] a = "--verbose" -> [ step EXCEPT !.cliLogLevel = "verbose" ]
             [] a = "--laconic" -> [ step EXCEPT !.cliLogLevel = "laconic" ]
             [] a = "--config" ->
                  IF cli.i + 1 > Len(cli.rest) \/ StartsWithDash(cli.rest[cli.i + 1])
                    THEN [ cli EXCEPT !.st = "exit" ]
                    ELSE [ cli EXCEPT !.configPath = cli.rest[cli.i + 1], !.i = @ + 2 ]
             [] OTHER -> step
  /\ UNCHANGED << lfs, lmt, isText, lroot, included, remVars, snapVars, hc, reads, ret, pc,
                  checked, planVars, rt, runVars, run >>

\* After the loop: --skip-sync without a list is an error, otherwise main().
CliMain ==
  /\ pc = "cli"
  /\ cli.st = "flags"
  /\ cli.i > Len(cli.rest)
  /\ cli' = [ cli EXCEPT !.st = IF cli.SKIP_SYNC /\ ~cli.RUN_UPLOAD_LIST /\ ~cli.RUN_DOWNLOAD_LIST
                                  THEN "exit" ELSE "main" ]
  /\ UNCHANGED << lfs, lmt, isText, lroot, included, remVars, snapVars, hc, reads, ret, pc,
                  checked, planVars, rt, runVars, run >>

\* let logLevel = (configRaw.logLevel ?? "normal").toLowerCase();
\* if (cliLogLevel) logLevel = cliLogLevel;
LogLevel(cliLogLevel, configLogLevel) ==
  IF cliLogLevel # "null" THEN cliLogLevel ELSE configLogLevel

\* new SftpPushSyncApp({ ..., cliLogLevel, configPath })
CliConstruct ==
  /\ pc = "cli"
  /\ cli.st = "main"
  /\ cli' = [ cli EXCEPT !.st = "app",
                         !.logLevel = LogLevel(cli.cliLogLevel, cli.configLogLevel) ]
  /\ UNCHANGED << lfs, lmt, isText, lroot, included, remVars, snapVars, hc, reads, ret, pc,
                  checked, planVars, rt, runVars, run >>

InitCli ==
  /\ \E args \in ArgLists, level \in { "normal", "verbose", "laconic" } :
       cli = [ NoCli EXCEPT !.rest = args, !.configLogLevel = level ]
  /\ lfs = [ f \in Files |-> Absent ]
  /\ rfs = [ f \in Files |-> Absent ]
  /\ lmt = [ f \in Files |-> 1 ]
  /\ rmt = [ f \in Files |-> 1 ]
  /\ isText = [ f \in Files |-> FALSE ]
  /\ lroot = TRUE
  /\ rdirs = { }
  /\ included = Files \cup Dirs
  /\ local = << >>
  /\ remote = << >>
  /\ hc = NewCache(FlushInterval, EmptyDoc)
  /\ reads = { }
  /\ ret = NoCalls
  /\ pc = "cli"
  /\ checked = 0
  /\ toAdd = << >>
  /\ toUpdate = << >>
  /\ toDelete = << >>
  /\ rt = NoTasks
  /\ opt = DefaultOptions
  /\ ops = { }
  /\ sess = [ connected |-> FALSE, ended |-> 0 ]
  /\ scan = NoScan
  /\ cl = NoCleanup
  /\ run = FirstRun
  /\ stats = ZeroStats

NextCli == CliFlag \/ CliMain \/ CliConstruct

SpecCli == InitCli /\ [][NextCli]_vars

\* The flags the loop has gone through.
Given(flag) == \E k \in 1..(cli.i - 1) : k <= Len(cli.rest) /\ cli.rest[k] = flag

\* C28: when the application is constructed and both --verbose and --laconic
\* were given, in whichever order, the log level is laconic.
C28_LaconicOverridesVerbose ==
  (cli.st = "app" /\ Given("--verbose") /\ Given("--laconic")) => cli.logLevel = "laconic"

\* ------------------------------- collectDirsFromChanges on deeper trees
MaxChanges == 2

\* Relative paths of files up to three directories deep.
DeepRels == { << "a" >>, << "d", "b" >>, << "d", "e", "c" >>, << "e", "d", "b" >>,
              << "d", "e", "d", "a" >> }

ChangeLists ==
  UNION { [ 1..n -> { Item(rel, PosixJoin(RemoteRoot, rel)) : rel \in DeepRels } ] :
            n \in 0..MaxChanges }

\* run() with a plan over deeper trees, at "Verzeichnisse vorbereiten".
InitDirs ==
  /\ toAdd \in ChangeLists
  /\ toUpdate \in { c \in ChangeLists : Len(c) <= 1 }
  /\ toDelete = << >>
  /\ rdirs \in { { }, { << "d" >> } }
  /\ pc = "ensure"
  /\ cli = NoCli
  /\ lfs = [ f \in Files |-> Absent ]
  /\ rfs = [ f \in Files |-> Absent ]
  /\ lmt = [ f \in Files |-> 1 ]
  /\ rmt = [ f \in Files |-> 1 ]
  /\ isText = [ f \in Files |-> FALSE ]
  /\ lroot = TRUE
  /\ included = Files \cup Dirs
  /\ local = << >>
  /\ remote = << >>
  /\ hc = [ NewCache(FlushInterval, EmptyDoc) EXCEPT !.load = "loaded" ]
  /\ reads = { }
  /\ ret = NoCalls
  /\ checked = 0
  /\ rt = NoTasks
  /\ opt = DefaultOptions
  /\ ops = { }
  /\ sess = [ connected |-> TRUE, ended |-> 0 ]
  /\ scan = NoScan
  /\ cl = NoCleanup
  /\ run = FirstRun
  /\ stats = ZeroStats

NextDirs == EnsureStart \/ EnsureDir \/ ApplyStart

SpecDirs == InitDirs /\ [][NextDirs]_vars

\* The proper ancestor directories of the paths of a plan.
ProperAncestors(changes) ==
  UNION { { SubSeq(changes[k].rel, 1, i) : i \in 1..(Len(changes[k].rel) - 1) } :
            k \in DOMAIN changes }

\* C31: the list ensureAllRemoteDirsExist works through is, at the call,
\* exactly the proper ancestors of the paths of toAdd and toUpdate, each once;
\* in the list that is still to be checked every directory comes after all of
\* its ancestors, and each round checks the head of that list.
C31_DirsAreAncestorsInOrder ==
  /\ [][ (pc = "ensure" /\ pc' # "ensure" /\ (Len(toAdd) # 0 \/ Len(toUpdate) # 0)) =>
           /\ Range(run'.ensure) = ProperAncestors(toAdd \o toUpdate)
           /\ \A i, j \in DOMAIN run'.ensure : run'.ensure[i] = run'.ensure[j] => i = j
           /\ stats'.ensuredDirs = stats.ensuredDirs + Cardinality(ProperAncestors(toAdd \o toUpdate)) ]_vars
  /\ [](\A i, j \in DOMAIN run.ensure :
          (Len(run.ensure[j]) < Len(run.ensure[i])
           /\ run.ensure[j] = SubSeq(run.ensure[i], 1, Len(run.ensure[j]))) => j < i)
  /\ [][ pc = "ensuring" => run'.ensure = Tail(run.ensure) ]_vars

C31_Witness ==
  /\ pc = "ensuring"
  /\ Len(toAdd) = 1 /\ Len(toUpdate) = 1
  /\ run.ensure = << << "d", "e" >>, << "e", "d" >>, << "d", "e", "d" >> >>
  /\ ops = { [ op |-> "mkdir", path |-> << "e" >> ] }

\* C32: a round of ensureAllRemoteDirsExist that leaves its directory missing
\* (exists or mkdir failed) does not count it as created and does not end the
\* run: the loop goes on with the next directory, createdDirs grows exactly in
\* the rounds in which the directory came into existence, and phase 5 starts
\* when the list is exhausted.
C32_EnsureFailureIsWarning ==
  /\ [][ pc = "ensuring" =>
           /\ run'.ensure = Tail(run.ensure)
           /\ pc' = (IF Tail(run.ensure) = << >> THEN "apply" ELSE "ensuring")
           /\ run'.exitCode = 0 /\ run'.fatal = "none"
           /\ stats'.createdDirs =
                stats.createdDirs + (IF Head(run.ensure) \notin rdirs /\ Head(run.ensure) \in rdirs'
                                       THEN 1 ELSE 0) ]_vars
  /\ [](pc \in { "apply", "applyAdd" } => run.ensure = << >>)

C32_Witness ==
  /\ pc = "applyAdd"
  /\ run.itemFailed
  /\ Rels(toAdd) = { << "d", "b" >>, << "e", "d", "b" >> } /\ toUpdate = << >>
  /\ << "d" >> \notin rdirs
  /\ << "e" >> \in rdirs /\ << "e", "d" >> \in rdirs
  /\ stats.createdDirs = 2

\* ------------------------------------------- cleanupEmptyDirs: failures
\* The directories whose rmdir, or whose list, failed in this cleanup.
RmdirFailed == { w.dir : w \in { x \in cl.warned : x.call = "rmdir" } }
ListFailed == { w.dir : w \in { x \in cl.warned : x.call = "list" } }

\* dir lies strictly above path; the root << >> is above everything else.
IsAbove(dir, path) == dir # path /\ IsWithin(path, dir)

AllDirs == Dirs \cup { << >> }

\* The parent directory of a path.
Parent(path) == SubSeq(path, 1, Len(path) - 1)

\* Every directory that still exists below a directory cleanup has listed
\* was itself listed.
ChildrenVisited ==
  \A s \in rdirs : (Parent(s) \in cl.listed \ ListFailed) => s \in cl.listed

\* C33: a directory whose rmdir failed still exists, is not counted as
\* removed, and no directory above it is ever passed to rmdir; when the
\* cleanup has returned, every directory below a listed directory has been
\* visited, and those left are the ones that hold a file or have a failed
\* directory in their subtree.
C33_RmdirFailureKeepsAncestors ==
  /\ \A x \in RmdirFailed :
       /\ x \in rdirs \/ x = << >>
       /\ \A a \in AllDirs : IsAbove(a, x) => a \notin Rmdirs
  /\ ~opt.dryRun => stats.cleanupDeleted = Cardinality(Rmdirs \ RmdirFailed)
  /\ (cl.st = "done" /\ ~opt.dryRun /\ ListFailed = { }) =>
       /\ ChildrenVisited
       /\ \A s \in rdirs :
            HoldsFile(s) \/ \E x \in RmdirFailed : IsWithin(x, s)

\* rmdir failed for the first directory of the root, the second directory was
\* removed all the same, and the root, which might have been removed, was not.
C33_Witness ==
  /\ cl.st = "done"
  /\ opt.cleanupEmptyRoots /\ ~opt.dryRun
  /\ ~HoldsFile(<< >>)
  /\ RmdirFailed = { << "d" >> } /\ ListFailed = { }
  /\ Rmdirs = { << "d", "e" >>, << "d" >>, << "g" >> }
  /\ rdirs = { << "d" >> }
  /\ stats.cleanupDeleted = 2

\* C34: a directory whose list failed is never passed to rmdir, nor is any
\* directory above it; no directory below it is listed; the failure does not
\* leave cleanupEmptyDirs as an exception; and when the cleanup has returned
\* every other directory below a listed directory has been visited and, if
\* nothing in its subtree holds a file or failed, removed.
C34_ListFailureSkipsSubtree ==
  /\ \A x \in ListFailed :
       /\ x \in rdirs \/ x = << >>
       /\ \A a \in AllDirs : IsWithin(x, a) => a \notin Rmdirs
       /\ \A c \in cl.listed : ~IsAbove(x, c)
  /\ ListFailed # { } => (pc \in { "cleaning", "save" } /\ run.fatal = "none" /\ run.exitCode = 0)
  /\ cl.st = "done" =>
       /\ ChildrenVisited
       /\ ~opt.dryRun =>
            \A s \in rdirs :
              \/ HoldsFile(s)
              \/ \E x \in RmdirFailed \cup ListFailed : IsWithin(x, s)
              \/ \E x \in ListFailed : IsAbove(x, s)

\* list failed for the first directory of the root, the directory below it was
\* not visited, the second directory of the root was removed.
C34_Witness ==
  /\ cl.st = "done" /\ pc = "save"
  /\ opt.cleanupEmptyRoots /\ ~opt.dryRun
  /\ ~HoldsFile(<< >>)
  /\ ListFailed = { << "d" >> }
  /\ cl.listed = { << >>, << "d" >>, << "g" >> }
  /\ Rmdirs = { << "g" >> }
  /\ rdirs = { << "d" >>, << "d", "e" >> }

\* C35: every rmdir is issued with recursive = false, on a directory that was
\* listed successfully in this cleanup, that holds no file of its own, and
\* whose subdirectories were all visited and removed by an earlier rmdir of
\* this cleanup.
C35_RmdirOnlyVerifiedEmpty ==
  [][ \A o \in ops' \ ops :
        o.op = "rmdir" =>
          /\ ~o.recursive
          /\ o.path \in cl.listed \ ListFailed
          /\ \A f \in Files : rfs[f] # Absent => ~IsChild(f, o.path)
          /\ \A c \in Dirs : IsChild(c, o.path) =>
               /\ c \notin rdirs
               /\ c \in cl.listed => (c \in Rmdirs /\ c \notin RmdirFailed) ]_vars

\* The nested directory, its parent and then the root were removed, each by a
\* non-recursive rmdir.
C35_Witness ==
  /\ cl.st = "done"
  /\ [ op |-> "rmdir", path |-> << >>, recursive |-> FALSE ] \in ops
  /\ [ op |-> "rmdir", path |-> << "d" >>, recursive |-> FALSE ] \in ops
  /\ [ op |-> "rmdir", path |-> << "d", "e" >>, recursive |-> FALSE ] \in ops
  /\ rdirs = { }

\* ------------------------------------------------------------- deletes
Deletes == { o \in ops : o.op = "delete" }

\* C36: a delete is issued only in the delete phase of a run whose scans and
\* analysis completed, and only for a key of the remote snapshot that the
\* local snapshot lacks; no remote file whose key is in the local snapshot
\* disappears.
C36_DeleteOnlyRemoteOnly ==
  /\ [][ \A o \in Deletes' \ Deletes :
           /\ pc = "applyDelete"
           /\ o.path \in Keys(remote) \ Keys(local)
           /\ run.fatal = "none"
           /\ scan.l = "done" /\ scan.r = "done"
           /\ checked = Len(local) ]_vars
  /\ [][ \A f \in Files :
           (rfs[f] # Absent /\ rfs'[f] = Absent) => f \notin Keys(local) ]_vars

\* The remote-only file was deleted, the file that both sides hold was not.
C36_Witness ==
  /\ pc = "done"
  /\ Deletes = { [ op |-> "delete", path |-> << "a" >> ] }
  /\ rfs[<< "a" >>] = Absent /\ lfs[<< "a" >>] = Absent
  /\ lfs[<< "d", "b" >>] # Absent /\ rfs[<< "d", "b" >>] = lfs[<< "d", "b" >>]
  /\ Keys(local) = { << "d", "b" >> }

\* ------------------------------------------------- the session after end()
\* A step in which walkRemote calls sftp.list.
ScanListIssued == scan'.r = "run" /\ (scan.r # "run" \/ scan'.rpend # scan.rpend)

\* C37: no list of a scan and no mkdir, put, delete or rmdir is issued once
\* end() has been called on the session.
C37_NoOperationAfterEnd ==
  [][ (ScanListIssued \/ ops' \ ops # { }) => sess.ended = 0 ]_vars

\* ------------------------------------------------ the load of the cache
\* Every entry of table t is in table u.
Keeps(t, u) == \A f \in Files : t[f].present => u[f] = t[f]

\* C38: the step in which the load completes keeps every entry the tables
\* held, and a save that writes while the load is pending keeps every entry
\* of the document it replaces.
C38_LoadKeepsEntries ==
  /\ [][ (hc.load = "pending" /\ hc'.load = "loaded") =>
           (Keeps(hc.local, hc'.local) /\ Keeps(hc.remote, hc'.remote)) ]_vars
  /\ [][ (hc.load = "pending" /\ hc'.disk # hc.disk) =>
           (Keeps(hc.disk.local, hc'.disk.local) /\ Keeps(hc.disk.remote, hc'.disk.remote)) ]_vars

\* ---------------------------------------- stores with automatic flushes
\* The stores of getLocalHash / getRemoteHash and the writes that markDirty
\* starts, with no save called from outside.
NextAutoFlush ==
  \/ \E side \in Sides, f \in Files : FlushStore(side, f)
  \/ FlushWriteDone

SpecAutoFlush == InitFlush /\ [][NextAutoFlush]_vars

\* C39: whenever the cache is clean and no write is in flight, the persisted
\* document holds every entry of the in-memory tables.
C39_CleanMeansPersisted ==
  (~hc.dirty /\ hc.writes = << >>) =>
    (Keeps(hc.local, hc.disk.local) /\ Keeps(hc.remote, hc.disk.remote))

\* ------------------------------------------------ the progress timer
\* run() with stdout a terminal or not.
InitProgress ==
  /\ RunEnv
  /\ \E tty \in BOOLEAN : scan = [ NoScan EXCEPT !.progress.tty = tty ]

SpecProgress == InitProgress /\ [][NextRun]_vars

\* C40: when run() has finished and no walk is running any more, the
\* ScanProgressController has no active interval.
C40_NoTimerAfterRun ==
  (pc = "done" /\ scan.l # "run" /\ scan.r # "run") => ~scan.progress.interval

====
